---- MODULE Spec2Model ----
(***************************************************************************)
(* Model of the shadcn-svelte registry resolver (RegistryCache,            *)
(* ShadcnSvelteRegistry.fetchWithRetry, fetchRegistryIndex, getComponent,  *)
(* getAvailableComponents).  Time is counted in milliseconds, as Date.now  *)
(* does.                                                                   *)
(*                                                                         *)
(*   SpecCache  drives RegistryCache directly with set / get / clear.      *)
(*   SpecRetry  drives fetchWithRetry with arbitrary thunks.               *)
(*   Spec       is the registry: queries step from one await to the next.  *)
(*   SpecTree   drives buildDirectoryTreeWithFallback (utils/axios.ts).    *)
(*   SpecAuth   follows the credential from startup to outbound requests.  *)
(*   SpecDoc    builds the source and context texts of a component.        *)
(*   SpecPattern drives the tool compose_ui_pattern.                       *)
(*   SpecWalk   runs buildDirectoryTree call by call on any remote.        *)
(*   SpecConc   is the registry with two callers at the same time.         *)
(*   SpecTools  is the registry under the tool list_components.            *)
(***************************************************************************)
EXTENDS Integers, Sequences, FiniteSets, TLC

VARIABLES
    now,            \* Date.now()
    cache,          \* RegistryCache.cache : key -> [data, timestamp]
    lastSet,        \* history: key -> the last set(key, _) since the last clear()
    lastOp,         \* SpecCache: the operation just performed and what it returned
    fw,             \* SpecRetry: one run of fetchWithRetry
    registryIndex,  \* ShadcnSvelteRegistry.registryIndex
    q,              \* the queries in flight, each at its current await
    hist,           \* history: queries started, outcome of the last index resolution
    bt,             \* SpecTree: one call of buildDirectoryTreeWithFallback
    gh,             \* SpecAuth: environment, the clients' headers, requests sent
    doc,            \* SpecDoc, SpecPattern: one call of a document-producing operation
    walk            \* SpecWalk: the call stack of one buildDirectoryTree

vars == <<now, cache, lastSet, lastOp, fw, registryIndex, q, hist, bt, gh, doc, walk>>

auxVars == <<bt, gh, doc, walk>>

regVars == <<registryIndex, q, hist, auxVars>>

(***************************************************************************)
(* Bounds                                                                  *)
(***************************************************************************)
MaxHours == 1          \* SpecCache reads the clock up to MaxHours * TTL (+ 2 ms)

(***************************************************************************)
(* RegistryCache                                                           *)
(***************************************************************************)
TTL == 1000 * 60 * 60

EmptyMap == [k \in {} |-> {}]

MapPut(m, k, v) == [x \in (DOMAIN m) \cup {k} |-> IF x = k THEN v ELSE m[x]]

MapDel(m, k) == [x \in (DOMAIN m) \ {k} |-> m[x]]

\* the entry is stale: Date.now() - cached.timestamp > this.TTL
ExpiredMutGe(entry, t) == t - entry.timestamp >= TTL

Expired(entry, t) == t - entry.timestamp > TTL

\* get(key): the value returned (hit = FALSE is JavaScript's null)
CacheGetValue(c, key, t) ==
    IF key \notin DOMAIN c THEN [hit |-> FALSE]
    ELSE IF Expired(c[key], t) THEN [hit |-> FALSE]
    ELSE [hit |-> TRUE, data |-> c[key].data]

\* get(key): the map after the call (an expired entry is deleted)
CacheGetEffectMutRefresh(c, key, t) ==
    IF key \in DOMAIN c
    THEN IF Expired(c[key], t) THEN MapDel(c, key)
         ELSE [c EXCEPT ![key].timestamp = t]
    ELSE c

CacheGetEffect(c, key, t) ==
    IF key \in DOMAIN c /\ Expired(c[key], t) THEN MapDel(c, key) ELSE c

\* set(key, data)
CacheSet(c, key, data, t) == MapPut(c, key, [data |-> data, timestamp |-> t])

\* clear()
CacheClear(c) == EmptyMap

(***************************************************************************)
(* The clock.  Date.now() is observed at chosen instants, so that an       *)
(* entry's age can be below, equal to, and just above TTL, and so that the *)
(* backoff waits of fetchWithRetry (1000 ms, then 2000 ms) can elapse.     *)
(***************************************************************************)
CacheInstants == {k * TTL + d : k \in 0 .. MaxHours, d \in {0, 1, 2}}

ClockInstants == {0, 1000, 3000, TTL, TTL + 1}

Tick(t) ==
    /\ t > now
    /\ now' = t

(***************************************************************************)
(* SpecCache: the cache driven directly                                    *)
(***************************************************************************)
CKeys == {"registry-index", "components-list", "component-button"}

CValues == {"v1", "v2"}

NoOp == [op |-> "none"]

Procs == {"q1", "q2"}

Null == [isNull |-> TRUE]

NonNull(v) == [isNull |-> FALSE, value |-> v]

IdleQuery == [op |-> "idle", pc |-> "idle"]

BtIdle == [phase |-> "idle"]

GhIdle == [phase |-> "idle"]

DocIdle == [phase |-> "idle"]

WalkIdle == [phase |-> "idle", stack |-> <<>>]

MaxQueries == 2        \* queries started in one behaviour

\* the history at construction; limit is the number of queries followed
NewHist(limit) ==
    [queries |-> 0, lastIndex |-> "none", populate |-> Null, limit |-> limit,
     pinned |-> Null]

InitCommon ==
    /\ now = 0
    /\ cache = EmptyMap
    /\ lastSet = EmptyMap
    /\ registryIndex = Null
    /\ q = [p \in Procs |-> IdleQuery]
    /\ hist = NewHist(MaxQueries)
    /\ bt = BtIdle
    /\ gh = GhIdle
    /\ doc = DocIdle
    /\ walk = WalkIdle

FwIdle == [phase |-> "idle"]

InitCache ==
    /\ InitCommon
    /\ lastOp = NoOp
    /\ fw = FwIdle

CSet(k, v) ==
    /\ cache' = CacheSet(cache, k, v, now)
    /\ lastSet' = MapPut(lastSet, k, [data |-> v, timestamp |-> now])
    /\ lastOp' = [op |-> "set", key |-> k]
    /\ UNCHANGED <<now, fw, regVars>>

CGet(k) ==
    /\ cache' = CacheGetEffect(cache, k, now)
    /\ lastOp' = [op |-> "get", key |-> k, ret |-> CacheGetValue(cache, k, now),
                  before |-> cache]
    /\ UNCHANGED <<now, lastSet, fw, regVars>>

CClear ==
    /\ cache' = CacheClear(cache)
    /\ lastSet' = EmptyMap
    /\ lastOp' = [op |-> "clear"]
    /\ UNCHANGED <<now, fw, regVars>>

CTick(t) ==
    /\ Tick(t)
    /\ lastOp' = [op |-> "tick"]
    /\ UNCHANGED <<cache, lastSet, fw, regVars>>

NextCache ==
    \/ \E k \in CKeys, v \in CValues : CSet(k, v)
    \/ \E k \in CKeys : CGet(k)
    \/ CClear
    \/ \E t \in CacheInstants : CTick(t)

SpecCache == InitCache /\ [][NextCache]_vars

\* C1: get(k) returns the value of the most recent set(k, v) when no clear()
\* happened since and at most TTL has elapsed since that set; once more than
\* TTL has elapsed since that set, get(k) is a miss.
C1_TtlCache ==
    (lastOp.op = "get" /\ lastOp.key \in DOMAIN lastSet) =>
        LET s == lastSet[lastOp.key] IN
        /\ (now - s.timestamp <= TTL) =>
               (lastOp.ret.hit /\ lastOp.ret.data = s.data)
        /\ (now - s.timestamp > TTL) => ~lastOp.ret.hit

\* a get exactly TTL after the set, which still returns the value
C1_Witness ==
    /\ lastOp.op = "get"
    /\ lastOp.key \in DOMAIN lastSet
    /\ now - lastSet[lastOp.key].timestamp = TTL
    /\ lastOp.ret.hit

(***************************************************************************)
(* Errors a remote call can reject with, as fetchWithRetry reads them:     *)
(* error.response?.status, error.response?.data?.message (whether it       *)
(* mentions 'rate limit'), error.response.headers['x-ratelimit-reset']     *)
(* ("" when the header is absent), and error.message.                      *)
(***************************************************************************)
HttpError(st, rl, rs) ==
    [response |-> TRUE, status |-> st, rateLimit |-> rl, reset |-> rs,
     message |-> "Request failed"]

NetworkError ==
    [response |-> FALSE, status |-> 0, rateLimit |-> FALSE, reset |-> "",
     message |-> "Network Error"]

ResetTimes == {"", "1700000000"}

RateLimitErrors == {HttpError(403, TRUE, rs) : rs \in ResetTimes}

NotFoundError == HttpError(404, FALSE, "")

TransientErrors == {HttpError(403, FALSE, ""), HttpError(500, FALSE, ""), NetworkError}

ThunkErrors == RateLimitErrors \cup {NotFoundError} \cup TransientErrors

\* new Error('GitHub API rate limit exceeded. Please set GITHUB_API_KEY ...')
RateLimitExceeded ==
    [response |-> FALSE, status |-> 0, rateLimit |-> FALSE, reset |-> "",
     message |-> "GitHub API rate limit exceeded. Please set GITHUB_API_KEY environment variable or wait."]

IsRateLimit(e) == e.response /\ e.status = 403 /\ e.rateLimit

IsNotFound(e) == e.response /\ e.status = 404

(***************************************************************************)
(* fetchWithRetry: the catch block of iteration i (0-based) with the       *)
(* current delay.  Either the call throws, or it sleeps `ms` and goes on   *)
(* with the doubled delay.                                                 *)
(***************************************************************************)
DefaultRetries == 3

DefaultDelay == 1000

OnFetchErrorMutRetryAll(i, retries, delay, e) ==
    IF i # retries - 1
    THEN [act |-> "sleep", ms |-> delay, delay |-> delay * 2]
    ELSE [act |-> "throw", error |-> e]

OnFetchErrorMutNoDouble(i, retries, delay, e) ==
    IF IsRateLimit(e) THEN [act |-> "throw", error |-> RateLimitExceeded]
    ELSE IF IsNotFound(e) THEN [act |-> "throw", error |-> e]
    ELSE IF i # retries - 1
    THEN [act |-> "sleep", ms |-> delay, delay |-> delay]
    ELSE [act |-> "throw", error |-> e]

OnFetchErrorMutOffByOne(i, retries, delay, e) ==
    IF IsRateLimit(e) THEN [act |-> "throw", error |-> RateLimitExceeded]
    ELSE IF IsNotFound(e) THEN [act |-> "throw", error |-> e]
    ELSE IF i # retries
    THEN [act |-> "sleep", ms |-> delay, delay |-> delay * 2]
    ELSE [act |-> "throw", error |-> e]

OnFetchErrorMutWrap404(i, retries, delay, e) ==
    IF IsRateLimit(e) THEN [act |-> "throw", error |-> RateLimitExceeded]
    ELSE IF IsNotFound(e) /\ i = retries - 1 THEN [act |-> "throw", error |-> e]
    ELSE IF i # retries - 1
    THEN [act |-> "sleep", ms |-> delay, delay |-> delay * 2]
    ELSE [act |-> "throw", error |-> e]

OnFetchError(i, retries, delay, e) ==
    IF IsRateLimit(e) THEN [act |-> "throw", error |-> RateLimitExceeded]
    ELSE IF IsNotFound(e) THEN [act |-> "throw", error |-> e]
    ELSE IF i # retries - 1
    THEN [act |-> "sleep", ms |-> delay, delay |-> delay * 2]
    ELSE [act |-> "throw", error |-> e]

\* the loop condition  i < retries
LoopGoesOn(i, retries) == i < retries

(***************************************************************************)
(* SpecRetry: one fetchWithRetry(thunk, retries, delay) at a time.  The    *)
(* thunk's outcome at each invocation is arbitrary.  fw.raised lists the   *)
(* errors the thunk raised, fw.sleeps the waits, in order, fw.resolved the  *)
(* value the thunk resolved with.                                          *)
(***************************************************************************)
MaxAttempts == 4       \* retries is drawn from 0 .. MaxAttempts

RetryCounts == 0 .. MaxAttempts

InitialDelays == {DefaultDelay, DefaultDelay \div 4}

ThunkValues == {"resp1", "resp2"}

ThunkOutcomes ==
    {[ok |-> TRUE, value |-> v] : v \in ThunkValues}
        \cup {[ok |-> FALSE, error |-> e] : e \in ThunkErrors}

NullResult == [kind |-> "null"]

FwRun(retries, delay) ==
    [phase |-> "attempt", i |-> 0, retries |-> retries, delay0 |-> delay,
     delay |-> delay, calls |-> 0, sleeps |-> <<>>, raised |-> <<>>,
     resolved |-> <<>>, out |-> NullResult]

InitRetry ==
    /\ InitCommon
    /\ lastOp = NoOp
    /\ fw = FwIdle

FwStart(retries, delay) ==
    /\ fw.phase = "idle"
    /\ fw' = IF LoopGoesOn(0, retries)
             THEN FwRun(retries, delay)
             ELSE [FwRun(retries, delay) EXCEPT !.phase = "returned"]
    /\ UNCHANGED <<now, cache, lastSet, lastOp, regVars>>

\* the thunk is invoked and settles with outcome o
FwAttempt(o) ==
    /\ fw.phase = "attempt"
    /\ IF o.ok
       THEN fw' = [fw EXCEPT !.phase = "returned", !.calls = @ + 1,
                             !.resolved = <<o.value>>,
                             !.out = [kind |-> "value", value |-> o.value]]
       ELSE LET d == OnFetchError(fw.i, fw.retries, fw.delay, o.error) IN
            IF d.act = "throw"
            THEN fw' = [fw EXCEPT !.phase = "threw", !.calls = @ + 1,
                                  !.raised = Append(@, o.error),
                                  !.out = [kind |-> "error", error |-> d.error]]
            ELSE fw' = [fw EXCEPT !.phase = "sleeping", !.calls = @ + 1,
                                  !.raised = Append(@, o.error),
                                  !.sleeps = Append(@, d.ms),
                                  !.delay = d.delay]
    /\ UNCHANGED <<now, cache, lastSet, lastOp, regVars>>

\* the timer fires: next iteration of the loop, or `return null` after it
FwWake ==
    /\ fw.phase = "sleeping"
    /\ fw' = IF LoopGoesOn(fw.i + 1, fw.retries)
             THEN [fw EXCEPT !.phase = "attempt", !.i = @ + 1]
             ELSE [fw EXCEPT !.phase = "returned", !.i = @ + 1]
    /\ UNCHANGED <<now, cache, lastSet, lastOp, regVars>>

FwReset ==
    /\ fw.phase \in {"returned", "threw"}
    /\ fw' = FwIdle
    /\ UNCHANGED <<now, cache, lastSet, lastOp, regVars>>

FwStep == (\E o \in ThunkOutcomes : FwAttempt(o)) \/ FwWake

NextRetry ==
    \/ \E r \in RetryCounts, d \in InitialDelays : FwStart(r, d)
    \/ \E o \in ThunkOutcomes : FwAttempt(o)
    \/ FwWake
    \/ FwReset

SpecRetry == InitRetry /\ [][NextRetry]_vars

\* every thunk invocation settles and every timer fires
FairSpecRetry == SpecRetry /\ WF_vars(FwStep)

FwActive == fw.phase \in {"attempt", "sleeping", "returned", "threw"}

FwEnded == fw.phase \in {"returned", "threw"}

RECURSIVE Pow2(_)
Pow2(n) == IF n = 0 THEN 1 ELSE 2 * Pow2(n - 1)

\* C2: a rate-limit condition raised by the thunk ends the run with a failure:
\* it is the last invocation, and no sleep follows it (an always-rate-limited
\* thunk is invoked exactly once with no sleep at all).
C2_RateLimitNoRetry ==
    FwActive =>
        \A j \in 1 .. Len(fw.raised) :
            IsRateLimit(fw.raised[j]) =>
                /\ fw.phase = "threw"
                /\ j = Len(fw.raised)
                /\ fw.calls = j
                /\ Len(fw.sleeps) = j - 1

\* the first invocation raised the rate limit with attempts remaining
C2_Witness ==
    /\ fw.phase = "threw"
    /\ fw.retries = DefaultRetries
    /\ fw.calls = 1
    /\ fw.sleeps = <<>>
    /\ IsRateLimit(fw.raised[1])

\* C3: a thunk that fails k < retries times transiently and then succeeds is
\* invoked k+1 times and its result is returned; the wait before the i-th
\* retry is delay * 2^(i-1); success at the first attempt waits not at all.
C3_BackoffThenSuccess ==
    (fw.phase = "returned" /\ fw.out.kind = "value") =>
        LET k == Len(fw.raised) IN
        /\ k < fw.retries
        /\ fw.calls = k + 1
        /\ fw.resolved = <<fw.out.value>>
        /\ Len(fw.sleeps) = k
        /\ \A i \in 1 .. k : fw.sleeps[i] = fw.delay0 * Pow2(i - 1)

\* two transient failures, then success, with the default arguments
C3_Witness ==
    /\ fw.phase = "returned"
    /\ fw.out.kind = "value"
    /\ fw.retries = DefaultRetries
    /\ fw.delay0 = DefaultDelay
    /\ fw.calls = 3
    /\ fw.sleeps = <<1000, 2000>>

\* C4: a 404 raised by the thunk fails the run with that same error; it is the
\* last invocation and no sleep follows it, even with attempts remaining.
C4_NotFoundNoRetry ==
    FwActive =>
        \A j \in 1 .. Len(fw.raised) :
            IsNotFound(fw.raised[j]) =>
                /\ fw.phase = "threw"
                /\ fw.out = [kind |-> "error", error |-> fw.raised[j]]
                /\ j = Len(fw.raised)
                /\ fw.calls = j
                /\ Len(fw.sleeps) = j - 1

\* a 404 at the first invocation, with attempts remaining
C4_Witness ==
    /\ fw.phase = "threw"
    /\ fw.retries = DefaultRetries
    /\ fw.calls = 1
    /\ fw.sleeps = <<>>
    /\ IsNotFound(fw.raised[1])
    /\ fw.out.error = NotFoundError

AllTransient(errs) == \A j \in 1 .. Len(errs) : errs[j] \in TransientErrors

\* C5: the run ends; the thunk is invoked at most retries times; when every
\* invocation fails transiently it is invoked exactly retries times, sleeps
\* retries - 1 times and throws the error of the last invocation.
C5_Terminates ==
    /\ [](FwActive => fw.calls <= fw.retries)
    /\ []((FwEnded /\ fw.out.kind # "value" /\ fw.retries > 0
                /\ AllTransient(fw.raised)) =>
            /\ fw.phase = "threw"
            /\ fw.calls = fw.retries
            /\ Len(fw.sleeps) = fw.retries - 1
            /\ fw.out = [kind |-> "error", error |-> fw.raised[fw.retries]])
    /\ ((fw.phase \in {"attempt", "sleeping"}) ~> FwEnded)

\* three transient failures exhaust the default budget
C5_Witness ==
    /\ fw.phase = "threw"
    /\ fw.retries = DefaultRetries
    /\ fw.calls = 3
    /\ Len(fw.sleeps) = 2
    /\ AllTransient(fw.raised)
    /\ fw.raised[3] # fw.raised[2]
    /\ fw.out.error = fw.raised[3]

\* C6: when the remote supplies a quota-reset time with the rate-limit
\* condition, the error fetchWithRetry fails with carries that reset time.
C6_ResetTimeCarried ==
    (fw.phase = "threw" /\ IsRateLimit(fw.raised[Len(fw.raised)])
        /\ fw.raised[Len(fw.raised)].reset # "") =>
            fw.out.error.reset = fw.raised[Len(fw.raised)].reset

(***************************************************************************)
(* The registry: static data                                               *)
(***************************************************************************)
SHADCN_SVELTE_COMPONENTS ==
    << "accordion", "alert", "alert-dialog", "aspect-ratio", "avatar", "badge",
       "breadcrumb", "button", "calendar", "card", "carousel", "chart",
       "checkbox", "collapsible", "combobox", "command", "context-menu",
       "data-table", "date-picker", "dialog", "drawer", "dropdown-menu",
       "formsnap", "hover-card", "input", "input-otp", "label", "menubar",
       "navigation-menu", "pagination", "popover", "progress", "radio-group",
       "range-calendar", "resizable", "scroll-area", "select", "separator",
       "sheet", "sidebar", "skeleton", "slider", "sonner", "switch", "table",
       "tabs", "textarea", "toggle", "toggle-group", "tooltip", "typography" >>

\* SHADCN_SVELTE_COMPONENTS.includes(name)
Includes(list, name) == \E i \in 1 .. Len(list) : list[i] = name

(***************************************************************************)
(* The remote source.  A contents response carries data.content, a base64  *)
(* text ("" when the payload has no content: an error payload, a listing). *)
(* The texts the remote may serve are listed here together with what they  *)
(* decode and parse to.                                                    *)
(***************************************************************************)
File(p) == [path |-> p, type |-> "registry:file"]

Item(t, n, fs, deps) ==
    [type |-> t, name |-> n, files |-> fs, dependencies |-> deps,
     registryDependencies |-> <<>>]

ButtonFiles ==
    << File("src/lib/registry/ui/button/button.svelte"),
       File("src/lib/registry/ui/button/index.ts") >>

ZetaFiles == << File("src/lib/registry/ui/zeta/zeta.svelte") >>

\* Buffer.from(content, 'base64').toString('utf-8')
Base64Decode(content) ==
    CASE content = "e2l0ZW1zOltidXR0b24sYmxvY2ssemV0YSxub25hbWVdfQ==" -> "{items:[button,block,zeta,noname]}"
      [] content = "e2l0ZW1zOlt6ZXRhLGJ1dHRvbix6ZXRhXX0=" -> "{items:[zeta,button,zeta]}"
      [] content = "e2l0ZW1zOltibG9ja119" -> "{items:[block]}"
      [] content = "e30=" -> "{}"
      [] content = "e2l0ZW1zOg==" -> "{items:"
      [] content = "PHNjcmlwdD5iPC9zY3JpcHQ+" -> "<script>b</script>"
      [] content = "ZXhwb3J0IHt9" -> "export {}"
      [] OTHER -> ""

\* JSON.parse(text): ok = FALSE when it throws; items is registry.items when
\* that is an array
JsonParse(text) ==
    CASE text = "{items:[button,block,zeta,noname]}" ->
            [ok |-> TRUE, hasItems |-> TRUE,
             items |-> << Item("registry:ui", "button", ButtonFiles, <<"bits-ui">>),
                          Item("registry:block", "dashboard-01", ZetaFiles, <<>>),
                          Item("registry:ui", "zeta", ZetaFiles, <<>>),
                          Item("registry:ui", "", ZetaFiles, <<>>) >>]
      [] text = "{items:[zeta,button,zeta]}" ->
            [ok |-> TRUE, hasItems |-> TRUE,
             items |-> << Item("registry:ui", "zeta", ZetaFiles, <<>>),
                          Item("registry:ui", "button", <<>>, <<>>),
                          Item("registry:ui", "zeta", <<>>, <<"clsx">>) >>]
      [] text = "{items:[block]}" ->
            [ok |-> TRUE, hasItems |-> TRUE,
             items |-> << Item("registry:block", "dashboard-01", ZetaFiles, <<>>) >>]
      [] text = "{}" -> [ok |-> TRUE, hasItems |-> FALSE, items |-> <<>>]
      [] OTHER -> [ok |-> FALSE, hasItems |-> FALSE, items |-> <<>>]

ManifestContents ==
    {"e2l0ZW1zOltidXR0b24sYmxvY2ssemV0YSxub25hbWVdfQ==", "e2l0ZW1zOlt6ZXRhLGJ1dHRvbix6ZXRhXX0=",
     "e2l0ZW1zOltibG9ja119", "e30=", "e2l0ZW1zOg=="}

\* the content the remote holds for a file of the registry
RemoteFile(path) ==
    CASE path = "src/lib/registry/ui/button/button.svelte" -> "PHNjcmlwdD5iPC9zY3JpcHQ+"
      [] path = "src/lib/registry/ui/button/index.ts" -> "ZXhwb3J0IHt9"
      [] OTHER -> "PHNjcmlwdD5iPC9zY3JpcHQ+"

\* what the remote may answer to a request: a response, or a rejection
RemoteErrors == {HttpError(403, TRUE, "1700000000"), NotFoundError, NetworkError}

Response(content) == [ok |-> TRUE, content |-> content]

Rejection(e) == [ok |-> FALSE, error |-> e]

ManifestAnswers ==
    {Response(c) : c \in ManifestContents \cup {""}}
        \cup {Rejection(e) : e \in RemoteErrors}

FileAnswers(path) ==
    {Response(RemoteFile(path)), Response("")}
        \cup {Rejection(e) : e \in RemoteErrors}

AllFileAnswers ==
    UNION {FileAnswers(ButtonFiles[j].path) : j \in 1 .. Len(ButtonFiles)}

(***************************************************************************)
(* RegistryIndex: an object keyed by component name.  keys is the order    *)
(* Object.keys enumerates (insertion order), meta the values.              *)
(***************************************************************************)
EmptyIndex == [keys |-> <<>>, meta |-> EmptyMap]

IndexPut(index, name, m) ==
    [keys |-> IF name \in DOMAIN index.meta THEN index.keys
              ELSE Append(index.keys, name),
     meta |-> MapPut(index.meta, name, m)]

\* the metadata built for a manifest item (lines 198-205)
ItemMeta(item) ==
    [name |-> item.name, type |-> item.type, files |-> item.files,
     dependencies |-> item.dependencies,
     registryDependencies |-> item.registryDependencies,
     description |-> item.name \o " component from shadcn-svelte"]

\* item.type === 'registry:ui' && item.name
KeepItemMutAnyType(item) == item.name # ""

KeepItem(item) == item.type = "registry:ui" /\ item.name # ""

\* registry.items.forEach(...) from item k on
RECURSIVE IndexItems(_, _, _)
IndexItems(items, k, index) ==
    IF k > Len(items) THEN index
    ELSE IndexItems(items, k + 1,
                    IF KeepItem(items[k])
                    THEN IndexPut(index, items[k].name, ItemMeta(items[k]))
                    ELSE index)

\* lines 189-213 on a response: parsed = FALSE when the response has no
\* content or parsing throws, else the index built
ParseManifest(content) ==
    IF content = "" THEN [parsed |-> FALSE, why |-> "no-content"]
    ELSE LET registry == JsonParse(Base64Decode(content)) IN
         IF ~registry.ok THEN [parsed |-> FALSE, why |-> "malformed"]
         ELSE [parsed |-> TRUE,
               index |-> IF registry.hasItems
                         THEN IndexItems(registry.items, 1, EmptyIndex)
                         ELSE EmptyIndex]

\* index[componentName]: own entries, and what every object inherits
ObjectPrototypeNames == {"constructor", "toString", "hasOwnProperty"}

IndexLookup(index, name) ==
    IF name \in DOMAIN index.meta THEN [found |-> TRUE, own |-> TRUE, meta |-> index.meta[name]]
    ELSE IF name \in ObjectPrototypeNames THEN [found |-> TRUE, own |-> FALSE]
    ELSE [found |-> FALSE, own |-> FALSE]

\* the static fallback metadata (lines 349-360)
FallbackData(name) ==
    [name |-> name, type |-> "registry:ui",
     files |-> << [path |-> "$lib/components/ui/" \o name, type |-> "registry:ui"] >>,
     dependencies |-> <<>>,
     description |-> name \o " component from shadcn-svelte"]

\* fetchFileContent on a settled fetchWithRetry: the body, or ''
FileBody(answer) ==
    IF answer.ok /\ answer.content # "" THEN Base64Decode(answer.content) ELSE ""

\* { ...file, content }
WithContent(file, content) ==
    [path |-> file.path, type |-> file.type, content |-> content]

(***************************************************************************)
(* The registry: queries.  A query record holds the position of one call   *)
(* of fetchRegistryIndex / getAvailableComponents / getComponent between   *)
(* its awaits, and what it observed (miss, reqs, how, index, seen, prev).  *)
(* st bundles the registry's mutable state: [cache, memo, lastSet], memo   *)
(* being this.registryIndex.                                               *)
(***************************************************************************)
QueryNames == {"button", "zeta", "nope", "constructor"}

\* fetchWithRetry(thunk) entered with the default arguments: the thunk is
\* invoked, the request is on its way
NewFetch ==
    [phase |-> "attempt", i |-> 0, delay |-> DefaultDelay, wakeAt |-> 0,
     reqs |-> 1, content |-> "", end |-> "none"]

NoFetch == [NewFetch EXCEPT !.phase = "none", !.reqs = 0]

Pending == [kind |-> "pending"]

NewQuery(op, name, t) ==
    [op |-> op, name |-> name, pc |-> "start", t0 |-> t, fetch |-> NoFetch,
     tasks |-> <<>>, meta |-> FallbackData(name), ret |-> Pending,
     miss |-> FALSE, how |-> "none", index |-> EmptyIndex,
     seen |-> IF "registry-index" \in DOMAIN lastSet
              THEN NonNull(lastSet["registry-index"]) ELSE Null,
     prev |-> hist.lastIndex, order |-> <<>>,
     listed |-> IF "components-list" \in DOMAIN lastSet
                THEN NonNull(lastSet["components-list"]) ELSE Null,
     pinned |-> hist.pinned]

Done(qr, ret) == [qr EXCEPT !.pc = "done", !.ret = ret]

\* this.cache.set(key, data) at time t
Store(st, key, data, t) ==
    [st EXCEPT !.cache = CacheSet(@, key, data, t),
               !.lastSet = MapPut(@, key, [data |-> data, timestamp |-> t])]

\* this.cache.get(key) at time t: the state after it
Evict(st, key, t) == [st EXCEPT !.cache = CacheGetEffect(@, key, t)]

\* getComponent, lines 347-365: the static fallback, or null
Fallback(qr, st, t) ==
    IF Includes(SHADCN_SVELTE_COMPONENTS, qr.name)
    THEN [q |-> Done(qr, [kind |-> "component", value |-> FallbackData(qr.name)]),
          st |-> Store(st, "component-" \o qr.name, FallbackData(qr.name), t)]
    ELSE [q |-> Done(qr, [kind |-> "null"]), st |-> st]

\* getComponent, lines 325-341: every file fetch has settled; Promise.all
\* keeps the order of componentMeta.files
CompleteMutCompletionOrder(qr, st, t) ==
    LET filesWithContent ==
            [j \in 1 .. Len(qr.meta.files) |->
                WithContent(qr.meta.files[qr.order[j]], qr.tasks[qr.order[j]].content)]
        completeComponent == [qr.meta EXCEPT !.files = filesWithContent]
    IN  [q |-> Done(qr, [kind |-> "component", value |-> completeComponent]),
         st |-> Store(st, "component-" \o qr.name, completeComponent, t)]

Complete(qr, st, t) ==
    LET filesWithContent ==
            [j \in 1 .. Len(qr.meta.files) |->
                WithContent(qr.meta.files[j], qr.tasks[j].content)]
        completeComponent == [qr.meta EXCEPT !.files = filesWithContent]
    IN  [q |-> Done(qr, [kind |-> "component", value |-> completeComponent]),
         st |-> Store(st, "component-" \o qr.name, completeComponent, t)]

\* getComponent, lines 321-345, with the index resolved
ComponentFromMutNoFallback(qr, index, st, t) ==
    LET look == IndexLookup(index, qr.name) IN
    IF look.found /\ look.own
    THEN LET qf == [qr EXCEPT !.meta = look.meta,
                              !.tasks = [j \in 1 .. Len(look.meta.files) |-> NewFetch]]
         IN  IF look.meta.files = <<>>
             THEN Complete(qf, st, t)
             ELSE [q |-> [qf EXCEPT !.pc = "files"], st |-> st]
    ELSE [q |-> Done(qr, [kind |-> "null"]), st |-> st]

ComponentFrom(qr, index, st, t) ==
    LET look == IndexLookup(index, qr.name) IN
    IF look.found /\ look.own
    THEN LET qf == [qr EXCEPT !.meta = look.meta,
                              !.tasks = [j \in 1 .. Len(look.meta.files) |-> NewFetch]]
         IN  IF look.meta.files = <<>>
             THEN Complete(qf, st, t)
             ELSE [q |-> [qf EXCEPT !.pc = "files"], st |-> st]
    ELSE \* no entry, or componentMeta.files.map throws on an inherited member
         Fallback(qr, st, t)

\* getAvailableComponents, lines 231-243, with the index resolved
ListFromMutAlwaysKeys(qr, index, st, t) ==
    LET components == index.keys IN
    [q |-> Done(qr, [kind |-> "list", value |-> components]),
     st |-> Store(st, "components-list", components, t)]

ListFromMutNoStore(qr, index, st, t) ==
    LET components == IF Len(index.keys) > 0 THEN index.keys
                      ELSE SHADCN_SVELTE_COMPONENTS
    IN  [q |-> Done(qr, [kind |-> "list", value |-> components]),
         st |-> [st EXCEPT !.lastSet = MapPut(@, "components-list",
                                [data |-> components, timestamp |-> t])]]

ListFromMutEmptyOnFailure(qr, index, st, t) ==
    LET components == index.keys IN
    IF Len(components) > 0
    THEN [q |-> Done(qr, [kind |-> "list", value |-> components]),
          st |-> Store(st, "components-list", components, t)]
    ELSE [q |-> Done(qr, [kind |-> "list", value |-> components]), st |-> st]

ListFrom(qr, index, st, t) ==
    LET components == index.keys IN
    IF Len(components) > 0
    THEN [q |-> Done(qr, [kind |-> "list", value |-> components]),
          st |-> Store(st, "components-list", components, t)]
    ELSE [q |-> Done(qr, [kind |-> "list", value |-> SHADCN_SVELTE_COMPONENTS]),
          st |-> Store(st, "components-list", SHADCN_SVELTE_COMPONENTS, t)]

\* what follows `await this.fetchRegistryIndex()` in the caller
AfterIndex(qr0, index, how, st, t) ==
    LET qr == [qr0 EXCEPT !.how = how, !.index = index] IN
    CASE qr.op = "fetchRegistryIndex" ->
            [q |-> Done(qr, [kind |-> "index", value |-> index]), st |-> st]
      [] qr.op = "getAvailableComponents" -> ListFrom(qr, index, st, t)
      [] qr.op = "getComponent" -> ComponentFrom(qr, index, st, t)

\* fetchRegistryIndex, lines 174-187: up to the first request
ResolveIndex(qr, st, t) ==
    IF ~st.memo.isNull
    THEN AfterIndex(qr, st.memo.value, "memo", st, t)
    ELSE LET cached == CacheGetValue(st.cache, "registry-index", t)
             st2 == Evict(st, "registry-index", t)
         IN  IF cached.hit
             THEN AfterIndex(qr, cached.data, "cache",
                             [st2 EXCEPT !.memo = NonNull(cached.data)], t)
             ELSE [q |-> [qr EXCEPT !.pc = "index", !.fetch = NewFetch], st |-> st2]

\* fetchRegistryIndex, lines 189-213: the manifest response has arrived
IndexFromResponseMutStoreFailure(qr, content, st, t) ==
    LET pm == ParseManifest(content) IN
    IF pm.parsed
    THEN AfterIndex(qr, pm.index,
                    IF pm.index.keys = <<>> THEN "zero" ELSE "fetched",
                    Store([st EXCEPT !.memo = NonNull(pm.index)],
                          "registry-index", pm.index, t), t)
    ELSE AfterIndex(qr, EmptyIndex, pm.why,
                    Store(st, "registry-index", EmptyIndex, t), t)

IndexFromResponse(qr, content, st, t) ==
    LET pm == ParseManifest(content) IN
    IF pm.parsed
    THEN AfterIndex(qr, pm.index,
                    IF pm.index.keys = <<>> THEN "zero" ELSE "fetched",
                    Store([st EXCEPT !.memo = NonNull(pm.index)],
                          "registry-index", pm.index, t), t)
    ELSE AfterIndex(qr, EmptyIndex, pm.why, st, t)

ErrorClass(e) ==
    IF IsRateLimit(e) THEN "rate-limit"
    ELSE IF IsNotFound(e) THEN "not-found"
    ELSE "exhausted"

\* a fetchWithRetry in flight receives the thunk's outcome
FetchOnAnswer(f, a, t) ==
    IF a.ok THEN [f EXCEPT !.phase = "resolved"]
    ELSE LET d == OnFetchError(f.i, DefaultRetries, f.delay, a.error) IN
         IF d.act = "throw"
         THEN [f EXCEPT !.phase = "threw"]
         ELSE [f EXCEPT !.phase = "sleeping", !.delay = d.delay,
                        !.wakeAt = t + d.ms]

\* its timer fires: the next iteration invokes the thunk again, or the loop
\* is over and null is returned
FetchOnWake(f) ==
    IF LoopGoesOn(f.i + 1, DefaultRetries)
    THEN [f EXCEPT !.phase = "attempt", !.i = @ + 1, !.reqs = @ + 1]
    ELSE [f EXCEPT !.phase = "returned-null", !.i = @ + 1]

(***************************************************************************)
(* The registry: actions.  Each runs a query from one await to the next.   *)
(***************************************************************************)
Bundle == [cache |-> cache, memo |-> registryIndex, lastSet |-> lastSet]

Apply(p, r) ==
    /\ q' = [q EXCEPT ![p] = r.q]
    /\ cache' = r.st.cache
    /\ registryIndex' = r.st.memo
    /\ lastSet' = r.st.lastSet

\* the index resolution of r.q ended in this step
Resolved(old, r) == old.how = "none" /\ r.q.how # "none"

MayStart(p) == q[p].pc = "idle" /\ hist.queries < hist.limit

Started(r) ==
    hist' = [hist EXCEPT !.queries = @ + 1,
                         !.lastIndex = IF r.q.how # "none" THEN r.q.how ELSE @]

\* fetchRegistryIndex()
StartFetchRegistryIndex(p) ==
    /\ MayStart(p)
    /\ LET r == ResolveIndex(NewQuery("fetchRegistryIndex", "", now), Bundle, now)
       IN  Apply(p, r) /\ Started(r)
    /\ UNCHANGED <<now, lastOp, fw, auxVars>>

\* getAvailableComponents(), lines 226-230
StartGetAvailableComponents(p) ==
    /\ MayStart(p)
    /\ LET qr == NewQuery("getAvailableComponents", "", now)
           cached == CacheGetValue(cache, "components-list", now)
           st == Evict(Bundle, "components-list", now)
           r == IF cached.hit
                THEN [q |-> Done(qr, [kind |-> "list", value |-> cached.data]),
                      st |-> st]
                ELSE ResolveIndex([qr EXCEPT !.miss = TRUE], st, now)
       IN  Apply(p, r) /\ Started(r)
    /\ UNCHANGED <<now, lastOp, fw, auxVars>>

\* getComponent(name), lines 315-320
StartGetComponent(p, name) ==
    /\ MayStart(p)
    /\ LET qr == NewQuery("getComponent", name, now)
           cacheKey == "component-" \o name
           cached == CacheGetValue(cache, cacheKey, now)
           st == Evict(Bundle, cacheKey, now)
           r == IF cached.hit
                THEN [q |-> Done(qr, [kind |-> "component", value |-> cached.data]),
                      st |-> st]
                ELSE ResolveIndex([qr EXCEPT !.miss = TRUE], st, now)
       IN  Apply(p, r) /\ Started(r)
    /\ UNCHANGED <<now, lastOp, fw, auxVars>>

IndexResolvedNow(p, r) ==
    hist' = [hist EXCEPT !.lastIndex = IF Resolved(q[p], r) THEN r.q.how ELSE @]

\* the manifest request of p is answered
ManifestAnswer(p, a) ==
    /\ q[p].pc = "index"
    /\ q[p].fetch.phase = "attempt"
    /\ LET f == FetchOnAnswer(q[p].fetch, a, now)
           qr == [q[p] EXCEPT !.fetch = f]
           r == CASE f.phase = "resolved" ->
                        IndexFromResponse(qr, a.content, Bundle, now)
                  [] f.phase = "threw" ->
                        AfterIndex(qr, EmptyIndex, ErrorClass(a.error), Bundle, now)
                  [] OTHER -> [q |-> qr, st |-> Bundle]
       IN  Apply(p, r) /\ IndexResolvedNow(p, r)
    /\ UNCHANGED <<now, lastOp, fw, auxVars>>

\* the backoff timer of p's manifest fetch fires
ManifestWake(p) ==
    /\ q[p].pc = "index"
    /\ q[p].fetch.phase = "sleeping"
    /\ now >= q[p].fetch.wakeAt
    /\ LET f == FetchOnWake(q[p].fetch)
           qr == [q[p] EXCEPT !.fetch = f]
           r == IF f.phase = "attempt" THEN [q |-> qr, st |-> Bundle]
                ELSE \* `response &&` fails on null: return {}
                     AfterIndex(qr, EmptyIndex, "no-response", Bundle, now)
       IN  Apply(p, r) /\ IndexResolvedNow(p, r)
    /\ UNCHANGED <<now, lastOp, fw, auxVars>>

\* fetchFileContent, lines 301-308: file j settles once its fetchWithRetry
\* has ended, with the decoded body or ''
Settle(f, a) ==
    CASE f.phase = "resolved" ->
            [f EXCEPT !.phase = "settled", !.content = FileBody(a),
                      !.end = IF a.content # "" THEN "body" ELSE "no-body"]
      [] f.phase = "threw" ->
            [f EXCEPT !.phase = "settled", !.content = "", !.end = ErrorClass(a.error)]
      [] f.phase = "returned-null" ->
            [f EXCEPT !.phase = "settled", !.content = "", !.end = "returned-null"]
      [] OTHER -> f

\* file j of qr has become f
Settled(qr, j, f) ==
    [qr EXCEPT !.tasks[j] = f,
               !.order = IF f.phase = "settled" THEN Append(@, j) ELSE @]

AllSettled(tasks) == \A j \in 1 .. Len(tasks) : tasks[j].phase = "settled"

\* Promise.all resolves when the last file has settled
AfterFile(qr, st, t) ==
    IF AllSettled(qr.tasks) THEN Complete(qr, st, t) ELSE [q |-> qr, st |-> st]

\* the request for file j of p's component is answered
FileAnswer(p, j, a) ==
    /\ q[p].pc = "files"
    /\ j \in 1 .. Len(q[p].tasks)
    /\ q[p].tasks[j].phase = "attempt"
    /\ a \in FileAnswers(q[p].meta.files[j].path)
    /\ LET f == Settle(FetchOnAnswer(q[p].tasks[j], a, now), a)
       IN  Apply(p, AfterFile(Settled(q[p], j, f), Bundle, now))
    /\ UNCHANGED <<now, hist, lastOp, fw, auxVars>>

\* the backoff timer of file j fires
FileWake(p, j) ==
    /\ q[p].pc = "files"
    /\ j \in 1 .. Len(q[p].tasks)
    /\ q[p].tasks[j].phase = "sleeping"
    /\ now >= q[p].tasks[j].wakeAt
    /\ LET f == Settle(FetchOnWake(q[p].tasks[j]), Response(""))
       IN  Apply(p, AfterFile(Settled(q[p], j, f), Bundle, now))
    /\ UNCHANGED <<now, hist, lastOp, fw, auxVars>>

\* a getComponent result that is not the remote's: the static fallback
\* (lines 348-362), or index metadata with a file whose body is '' (line 307)
Degraded(name, data) ==
    IF data = FallbackData(name) THEN TRUE
    ELSE \E j \in 1 .. Len(data.files) : data.files[j].content = ""

\* the query built a degraded result and it is the entry the cache holds
PinnedBy(qr) ==
    LET cacheKey == "component-" \o qr.name IN
    /\ qr.op = "getComponent" /\ qr.miss
    /\ qr.ret.kind = "component"
    /\ Degraded(qr.name, qr.ret.value)
    /\ cacheKey \in DOMAIN lastSet
    /\ lastSet[cacheKey].data = qr.ret.value

\* the caller has received the result
Finish(p) ==
    /\ q[p].pc = "done"
    /\ q' = [q EXCEPT ![p] = IdleQuery]
    /\ hist' = [hist EXCEPT !.populate =
                    IF q[p].op = "getAvailableComponents" /\ q[p].miss
                    THEN NonNull(IF q[p].fetch.phase = "none" THEN 0 ELSE 1)
                    ELSE @,
                           !.pinned =
                    IF PinnedBy(q[p])
                    THEN NonNull([name |-> q[p].name, data |-> q[p].ret.value,
                                  timestamp |-> lastSet["component-" \o q[p].name].timestamp])
                    ELSE @]
    /\ UNCHANGED <<now, cache, lastSet, registryIndex, lastOp, fw, auxVars>>

\* clearCache()
ClearCache ==
    /\ cache' = CacheClear(cache)
    /\ lastSet' = EmptyMap
    /\ hist' = [hist EXCEPT !.populate = Null, !.pinned = Null]
    /\ UNCHANGED <<now, registryIndex, q, lastOp, fw, auxVars>>

\* time passes while a query waits, or between queries
RTick(t) ==
    /\ \A p \in Procs : q[p].pc # "done"
    /\ Tick(t)
    /\ UNCHANGED <<cache, lastSet, registryIndex, q, hist, lastOp, fw, auxVars>>

MaxFiles == Len(ButtonFiles)

Init ==
    /\ InitCommon
    /\ lastOp = NoOp
    /\ fw = FwIdle

\* no other query is in flight: Spec runs one external query (or clearCache)
\* at a time, while the clock may advance at any await
Quiet == \A r \in Procs : q[r].pc = "idle"

\* the one caller of Spec
Sequential == {"q1"}

Next ==
    \/ \E p \in Sequential : Quiet /\ StartFetchRegistryIndex(p)
    \/ \E p \in Sequential : Quiet /\ StartGetAvailableComponents(p)
    \/ \E p \in Sequential, n \in QueryNames : Quiet /\ StartGetComponent(p, n)
    \/ \E p \in Sequential, a \in ManifestAnswers : ManifestAnswer(p, a)
    \/ \E p \in Sequential : ManifestWake(p)
    \/ \E p \in Sequential, j \in 1 .. MaxFiles, a \in AllFileAnswers : FileAnswer(p, j, a)
    \/ \E p \in Sequential, j \in 1 .. MaxFiles : FileWake(p, j)
    \/ \E p \in Sequential : Finish(p)
    \/ Quiet /\ ClearCache
    \/ \E t \in ClockInstants : RTick(t)

Spec == Init /\ [][Next]_vars

(***************************************************************************)
(* Claims about the registry                                               *)
(***************************************************************************)
\* the query has entered fetchRegistryIndex
IndexCalled(qr) == qr.pc # "idle" /\ (qr.how # "none" \/ qr.pc = "index")

FailureClasses == {"rate-limit", "not-found", "exhausted", "malformed", "no-content"}

\* C7: an index resolution started within TTL of the time the index was
\* stored returns the stored index without a remote request; one started more
\* than TTL after it was stored requests the manifest again.
C7_IndexTtlBounded ==
    \A p \in Procs :
        (IndexCalled(q[p]) /\ ~q[p].seen.isNull) =>
            LET age == q[p].t0 - q[p].seen.value.timestamp IN
            /\ (age <= TTL) =>
                   /\ q[p].fetch.reqs = 0
                   /\ q[p].index = q[p].seen.value.data
            /\ (age > TTL) => q[p].fetch.reqs >= 1

\* C8: a failed manifest fetch or parse makes the index resolution return an
\* empty index without raising, leaves nothing stored, and the next index
\* resolution requests the manifest again.
C8_IndexFailureNotStored ==
    \A p \in Procs :
        /\ (q[p].pc # "idle" /\ q[p].how \in FailureClasses) =>
               /\ q[p].index = EmptyIndex
               /\ "registry-index" \notin DOMAIN cache
               /\ registryIndex.isNull
               /\ (q[p].op = "fetchRegistryIndex") =>
                      /\ q[p].pc = "done"
                      /\ q[p].ret = [kind |-> "index", value |-> EmptyIndex]
        /\ (IndexCalled(q[p]) /\ q[p].prev \in FailureClasses) =>
               q[p].fetch.reqs >= 1

\* a resolution that failed on a malformed manifest right after one whose
\* retries were exhausted
C8_Witness ==
    \E p \in Procs :
        /\ q[p].pc = "done"
        /\ q[p].op = "fetchRegistryIndex"
        /\ q[p].prev = "exhausted"
        /\ q[p].how = "malformed"
        /\ q[p].fetch.reqs = 1

\* C9: a manifest that parses to zero UI-component entries yields an empty
\* index that is retained nowhere, and the next index resolution requests the
\* manifest again.
C9_ZeroEntriesNotRetained ==
    \A p \in Procs :
        /\ (q[p].pc # "idle" /\ q[p].how = "zero") =>
               /\ q[p].index = EmptyIndex
               /\ "registry-index" \notin DOMAIN cache
               /\ registryIndex.isNull
        /\ (IndexCalled(q[p]) /\ q[p].prev = "zero") => q[p].fetch.reqs >= 1

\* C10: getComponent(name) on a cache miss returns the index entry with a
\* body fetched for every listed file and caches it, or else the synthesized
\* single-file contentless metadata of a static name and caches it, or else
\* null and caches nothing.
C10_GetComponentThreeWays ==
    \A p \in Procs :
        (q[p].pc = "done" /\ q[p].op = "getComponent" /\ q[p].miss) =>
            LET name == q[p].name
                key == "component-" \o name
                ret == q[p].ret
            IN  IF name \in DOMAIN q[p].index.meta
                THEN LET entry == q[p].index.meta[name] IN
                     /\ ret.kind = "component"
                     /\ ret.value.name = name
                     /\ ret.value.dependencies = entry.dependencies
                     /\ Len(ret.value.files) = Len(entry.files)
                     /\ \A j \in 1 .. Len(entry.files) :
                            /\ ret.value.files[j].path = entry.files[j].path
                            /\ "content" \in DOMAIN ret.value.files[j]
                            /\ q[p].tasks[j].reqs >= 1
                     /\ key \in DOMAIN cache
                     /\ cache[key].data = ret.value
                ELSE IF \E i \in 1 .. Len(SHADCN_SVELTE_COMPONENTS) :
                            SHADCN_SVELTE_COMPONENTS[i] = name
                THEN /\ ret.kind = "component"
                     /\ ret.value.name = name
                     /\ Len(ret.value.files) = 1
                     /\ "content" \notin DOMAIN ret.value.files[1]
                     /\ key \in DOMAIN cache
                     /\ cache[key].data = ret.value
                ELSE /\ ret.kind = "null"
                     /\ key \notin DOMAIN cache

\* button resolved from a fetched index, one body fetched and one fetch failed
C10_Witness ==
    \E p \in Procs :
        /\ q[p].pc = "done"
        /\ q[p].op = "getComponent"
        /\ q[p].name = "button"
        /\ q[p].miss
        /\ q[p].how = "fetched"
        /\ "button" \in DOMAIN q[p].index.meta
        /\ Len(q[p].ret.value.files) = 2
        /\ q[p].ret.value.files[1].content = "<script>b</script>"
        /\ q[p].ret.value.files[2].content = ""
        /\ cache["component-button"].data = q[p].ret.value

\* the index resolution of the query returned a non-empty index
IndexResolvedOk(qr) == qr.how \in {"fetched", "memo", "cache"} /\ qr.index.keys # <<>>

\* C11: for a name of the static list, getComponent on a cache miss returns a
\* non-empty files sequence when the index resolved and contains the name,
\* and exactly one file without content when only the static fallback applies.
C11_StaticNameFiles ==
    \A p \in Procs :
        (q[p].pc = "done" /\ q[p].op = "getComponent" /\ q[p].miss
            /\ Includes(SHADCN_SVELTE_COMPONENTS, q[p].name)) =>
            /\ q[p].ret.kind = "component"
            /\ (IndexResolvedOk(q[p]) /\ q[p].name \in DOMAIN q[p].index.meta) =>
                   Len(q[p].ret.value.files) > 0
            /\ (q[p].name \notin DOMAIN q[p].index.meta) =>
                   /\ Len(q[p].ret.value.files) = 1
                   /\ "content" \notin DOMAIN q[p].ret.value.files[1]

\* C12: when getComponent resolves a name from the index, failed file fetches
\* do not abort it: the result has one file per file of the index entry, in
\* the entry's order and with its paths whatever the order of completion; a
\* file whose fetch brought a body has that body, every other file has ''.
C12_PartialFilesKept ==
    \A p \in Procs :
        (q[p].pc = "done" /\ q[p].op = "getComponent" /\ q[p].miss
            /\ q[p].name \in DOMAIN q[p].index.meta) =>
            LET entry == q[p].index.meta[q[p].name]
                files == q[p].ret.value.files
            IN  /\ q[p].ret.kind = "component"
                /\ Len(files) = Len(entry.files)
                /\ Len(q[p].order) = Len(entry.files)
                /\ \A j \in 1 .. Len(entry.files) :
                       /\ files[j].path = entry.files[j].path
                       /\ files[j].type = entry.files[j].type
                       /\ q[p].tasks[j].end # "none"
                       /\ files[j].content =
                              IF q[p].tasks[j].end = "body"
                              THEN Base64Decode(RemoteFile(entry.files[j].path))
                              ELSE ""

\* button: the second file arrived first, the first file hit the rate limit
C12_Witness ==
    \E p \in Procs :
        /\ q[p].pc = "done"
        /\ q[p].op = "getComponent"
        /\ q[p].name = "button"
        /\ "button" \in DOMAIN q[p].index.meta
        /\ q[p].order = <<2, 1>>
        /\ q[p].tasks[1].end = "rate-limit"
        /\ q[p].tasks[2].end = "body"
        /\ q[p].ret.value.files[1] =
               WithContent(ButtonFiles[1], "")
        /\ q[p].ret.value.files[2] =
               WithContent(ButtonFiles[2], "export {}")

\* the index resolution failed or found nothing
IndexEmptyOrUnreachable(qr) ==
    qr.how \in FailureClasses \cup {"zero", "no-response"}

\* C13: getAvailableComponents on a cache miss returns the keys of the
\* resolved index when there are any, else the static list (index empty or
\* unreachable); the list returned is stored under "components-list" at that
\* time, and a later call misses exactly when that entry is older than TTL.
C13_ListFromIndexOrStatic ==
    \A p \in Procs :
        /\ (q[p].pc = "done" /\ q[p].op = "getAvailableComponents" /\ q[p].miss) =>
               /\ q[p].ret.kind = "list"
               /\ q[p].ret.value = IF q[p].index.keys # <<>> THEN q[p].index.keys
                                   ELSE SHADCN_SVELTE_COMPONENTS
               /\ IndexEmptyOrUnreachable(q[p]) =>
                      q[p].ret.value = SHADCN_SVELTE_COMPONENTS
               /\ "components-list" \in DOMAIN cache
               /\ cache["components-list"].data = q[p].ret.value
               /\ cache["components-list"].timestamp = now
        /\ (q[p].pc # "idle" /\ q[p].op = "getAvailableComponents"
                /\ ~q[p].listed.isNull) =>
               (q[p].miss <=> q[p].t0 - q[p].listed.value.timestamp > TTL)

\* the keys of a fetched index, in manifest order and without duplicates
C13_Witness ==
    \E p \in Procs :
        /\ q[p].pc = "done"
        /\ q[p].op = "getAvailableComponents"
        /\ q[p].miss
        /\ q[p].how = "fetched"
        /\ q[p].ret.value = <<"zeta", "button">>
        /\ cache["components-list"] = [data |-> <<"zeta", "button">>, timestamp |-> now]
        /\ now > 0

REPO_OWNER == "huntabyte"

REPO_NAME == "shadcn-svelte"

REPO_BRANCH == "main"

DepthLimit == 8

\* String.prototype.includes
StrIncludes(s, sub) ==
    \E i \in 1 .. Len(s) - Len(sub) + 1 : SubSeq(s, i, i + Len(sub) - 1) = sub

\* path.split('/').length
SplitLength(path) ==
    1 + Cardinality({i \in 1 .. Len(path) : SubSeq(path, i, i) = "/"})

\* `/repos/${owner}/${repo}/contents/${path}?ref=${branch}`
ContentsUrl(owner, repo, path, branch) ==
    "/repos/" \o owner \o "/" \o repo \o "/contents/" \o path \o "?ref=" \o branch

\* an entry of a contents listing, or a single descriptor
Entry(type, path, name) ==
    [type |-> type, name |-> name, path |-> path,
     download_url |-> IF type = "file" THEN "https://raw.example/" \o path ELSE "",
     sha |-> "sha:" \o path]

Deep7 == "a/b/c/d/e/f/g"

Deep8 == "a/b/c/d/e/f/g/h"

Deep9 == "a/b/c/d/e/f/g/h/i"

RemoteListing(path) ==
    CASE path = "packages" ->
            << Entry("file", "packages/README.md", "README.md"),
               Entry("dir", "packages/cli", "cli"),
               Entry("symlink", "packages/link", "link"),
               Entry("dir", "packages/registry", "registry") >>
      [] path = "packages/cli" ->
            << Entry("dir", "packages/cli/src", "src"),
               Entry("file", "packages/cli/package.json", "package.json") >>
      [] path = "packages/cli/src" ->
            << Entry("file", "packages/cli/src/index.ts", "index.ts") >>
      [] path = "packages/registry" ->
            << Entry("file", "packages/registry/index.json", "index.json") >>
      [] path = "docs/rate limit" ->
            << Entry("file", "docs/rate limit/faq.md", "faq.md") >>
      [] path = Deep7 ->
            << Entry("file", "a/b/c/d/e/f/g/x.txt", "x.txt"),
               Entry("dir", Deep8, "h") >>
      [] path = Deep8 ->
            << Entry("dir", Deep9, "i"),
               Entry("file", "a/b/c/d/e/f/g/h/y.txt", "y.txt") >>
      [] path = Deep9 ->
            << Entry("file", "a/b/c/d/e/f/g/h/i/z.txt", "z.txt") >>
      [] OTHER -> << >>

\* the paths of the repository that are files
RemoteFiles == {"packages/README.md"}

\* the paths a call may request
TreePaths ==
    {"packages", "packages/cli", "packages/cli/src", "packages/registry",
     "docs/rate limit", Deep7, Deep8, Deep9} \cup RemoteFiles

\* response.data: an array, an object, or nothing
ListingData(items) == [falsy |-> FALSE, isArray |-> TRUE, items |-> items]

FileData(path) ==
    [falsy |-> FALSE, isArray |-> FALSE, message |-> "", type |-> "file",
     path |-> path, name |-> "README.md",
     download_url |-> "https://raw.example/" \o path, sha |-> "sha:" \o path]

PayloadData(message) ==
    [falsy |-> FALSE, isArray |-> FALSE, message |-> message, type |-> ""]

\* a descriptor that is neither a file nor an error payload, with its
\* JSON.stringify text
SymlinkData ==
    [falsy |-> FALSE, isArray |-> FALSE, message |-> "", type |-> "symlink",
     json |-> "{\"type\":\"symlink\",\"target\":\"../x\"}"]

NoData == [falsy |-> TRUE]

\* what the repository holds at path
GoodData(path) ==
    IF path \in RemoteFiles THEN FileData(path) ELSE ListingData(RemoteListing(path))

DataResponse(data) == [ok |-> TRUE, data |-> data]

\* new Error(message)
NewError(message) == [message |-> message, response |-> Null]

\* the rejection of a request answered with an error status
AxiosError(status, message) ==
    [message |-> "Request failed with status code " \o ToString(status),
     response |-> NonNull([status |-> status, message |-> message])]

\* the rejection of a request that got no response
NetworkFailure == [message |-> "timeout of 30000ms exceeded", response |-> Null]

PrimaryRateLimit == "API rate limit exceeded for 203.0.113.7."

SecondaryRateLimit == "You have exceeded a secondary rate limit."

RateLimitKinds ==
    {"rate-limit-payload", "secondary-rate-limit-payload", "http-403-rate-limit"}

OtherFailureKinds ==
    {"not-found-payload", "bad-credentials-payload", "no-data", "unexpected",
     "http-404", "http-403", "http-401", "http-500", "network"}

RootKinds == {"ok"} \cup RateLimitKinds \cup OtherFailureKinds

SubKinds == {"ok", "rate-limit-payload", "http-404", "no-data", "network"}

\* the answer of kind kind to the request for path
AnswerOf(kind, path) ==
    CASE kind = "ok" -> DataResponse(GoodData(path))
      [] kind = "rate-limit-payload" -> DataResponse(PayloadData(PrimaryRateLimit))
      [] kind = "secondary-rate-limit-payload" ->
            DataResponse(PayloadData(SecondaryRateLimit))
      [] kind = "not-found-payload" -> DataResponse(PayloadData("Not Found"))
      [] kind = "bad-credentials-payload" -> DataResponse(PayloadData("Bad credentials"))
      [] kind = "no-data" -> DataResponse(NoData)
      [] kind = "unexpected" -> DataResponse(SymlinkData)
      [] kind = "http-404" -> Rejection(AxiosError(404, "Not Found"))
      [] kind = "http-403-rate-limit" -> Rejection(AxiosError(403, PrimaryRateLimit))
      [] kind = "http-403" -> Rejection(AxiosError(403, "Resource not accessible"))
      [] kind = "http-401" -> Rejection(AxiosError(401, "Bad credentials"))
      [] kind = "http-500" -> Rejection(AxiosError(500, ""))
      [] kind = "network" -> Rejection(NetworkFailure)

PathNotFound(path) ==
    NewError("Path not found: " \o path \o ". The path may not exist in the repository.")

ConsiderToken ==
    " Consider setting GITHUB_PERSONAL_ACCESS_TOKEN environment variable for higher rate limits."

\* lines 196-226: what the catch block throws for the error caught
OnTreeError(path, error) ==
    IF error.message # ""
        /\ (StrIncludes(error.message, "rate limit")
            \/ StrIncludes(error.message, "GitHub API error"))
    THEN error
    ELSE IF ~error.response.isNull
    THEN LET status == error.response.value.status
             message == IF error.response.value.message # ""
                        THEN error.response.value.message ELSE "Unknown error"
         IN  CASE status = 404 -> PathNotFound(path)
               [] status = 403 ->
                    IF StrIncludes(message, "rate limit")
                    THEN NewError("GitHub API rate limit exceeded: " \o message
                                    \o ConsiderToken)
                    ELSE NewError("Access forbidden: " \o message)
               [] status = 401 ->
                    NewError("Authentication failed. Please check your GITHUB_PERSONAL_ACCESS_TOKEN if provided.")
               [] OTHER ->
                    NewError("GitHub API error (" \o ToString(status) \o "): " \o message)
    ELSE error

\* lines 135-142: the error for an error payload
PayloadError(path, message) ==
    IF StrIncludes(message, "rate limit exceeded")
    THEN NewError("GitHub API rate limit exceeded. " \o message \o ConsiderToken)
    ELSE IF StrIncludes(message, "Not Found")
    THEN PathNotFound(path)
    ELSE NewError("GitHub API error: " \o message)

\* lines 147-153, 170-176
FileNode(item) ==
    [path |-> item.path, type |-> "file", name |-> item.name,
     url |-> item.download_url, sha |-> item.sha]

\* lines 185-189
FailedDirectory(item) ==
    [path |-> item.path, type |-> "directory", error |-> "Failed to fetch contents"]

\* result.children[item.name]
ChildKeyMutPath(item) == item.path

ChildKey(item) == item.name

\* path.split('/').length < 8
MayDescendMutLe(path) == SplitLength(path) <= DepthLimit

MayDescendMutAlways(path) == TRUE

MayDescend(path) == SplitLength(path) < DepthLimit

TreeThrow(error, reqs) == [ok |-> FALSE, error |-> error, reqs |-> reqs]

TreeReturn(value, reqs) == [ok |-> TRUE, value |-> value, reqs |-> reqs]

RECURSIVE BuildDirectoryTree(_, _, _, _, _)
RECURSIVE ProcessItems(_, _, _, _, _, _, _, _, _)
RECURSIVE ProcessItemsMutStopAtFailure(_, _, _, _, _, _, _, _, _)

\* lines 167-195: the loop over the listing from item k on; a subdirectory is
\* awaited before the next item is looked at
ProcessItemsMutStopAtFailure(owner, repo, path, branch, remote, items, k, result, reqs) ==
    IF k > Len(items) THEN TreeReturn(result, reqs)
    ELSE LET item == items[k] IN
         IF item.type = "file"
         THEN ProcessItemsMutStopAtFailure(owner, repo, path, branch, remote, items, k + 1,
                    [result EXCEPT !.children = MapPut(@, ChildKey(item), FileNode(item))],
                    reqs)
         ELSE IF item.type = "dir" /\ MayDescend(path)
         THEN LET sub == BuildDirectoryTree(owner, repo, item.path, branch, remote)
              IN  IF sub.ok
                  THEN ProcessItemsMutStopAtFailure(owner, repo, path, branch, remote,
                            items, k + 1,
                            [result EXCEPT !.children = MapPut(@, ChildKey(item), sub.value)],
                            reqs \o sub.reqs)
                  ELSE TreeReturn(
                            [result EXCEPT !.children =
                                MapPut(@, ChildKey(item), FailedDirectory(item))],
                            reqs \o sub.reqs)
         ELSE ProcessItemsMutStopAtFailure(owner, repo, path, branch, remote, items, k + 1,
                    result, reqs)

ProcessItems(owner, repo, path, branch, remote, items, k, result, reqs) ==
    IF k > Len(items) THEN TreeReturn(result, reqs)
    ELSE LET item == items[k] IN
         IF item.type = "file"
         THEN ProcessItems(owner, repo, path, branch, remote, items, k + 1,
                    [result EXCEPT !.children = MapPut(@, ChildKey(item), FileNode(item))],
                    reqs)
         ELSE IF item.type = "dir" /\ MayDescend(path)
         THEN LET sub == BuildDirectoryTree(owner, repo, item.path, branch, remote)
                  child == IF sub.ok THEN sub.value ELSE FailedDirectory(item)
              IN  ProcessItems(owner, repo, path, branch, remote, items, k + 1,
                        [result EXCEPT !.children = MapPut(@, ChildKey(item), child)],
                        reqs \o sub.reqs)
         ELSE ProcessItems(owner, repo, path, branch, remote, items, k + 1,
                    result, reqs)

\* lines 117-227.  remote gives the kind of answer of each path; the result
\* is the tree returned or the error thrown, with the requests issued.
BuildDirectoryTree(owner, repo, path, branch, remote) ==
    LET reqs == << [path |-> path, url |-> ContentsUrl(owner, repo, path, branch)] >>
        answer == AnswerOf(remote[path], path)
    IN  IF ~answer.ok THEN TreeThrow(OnTreeError(path, answer.error), reqs)
        ELSE LET contents == answer.data IN
             IF contents.falsy
             THEN TreeThrow(OnTreeError(path,
                                NewError("No data received from GitHub API")), reqs)
             ELSE IF ~contents.isArray
             THEN IF contents.message # ""
                  THEN TreeThrow(OnTreeError(path,
                                    PayloadError(path, contents.message)), reqs)
                  ELSE IF contents.type = "file"
                  THEN TreeReturn(FileNode(contents), reqs)
                  ELSE TreeThrow(OnTreeError(path,
                            NewError("Unexpected response type from GitHub API: "
                                        \o contents.json)), reqs)
             ELSE ProcessItems(owner, repo, path, branch, remote, contents.items, 1,
                        [path |-> path, type |-> "directory", children |-> EmptyMap],
                        reqs)

\* lines 233-254
getBasicSvelteStructure ==
    [path |-> "packages",
     type |-> "directory",
     note |-> "Basic structure provided due to API limitations",
     children |->
        ("cli" :> [path |-> "packages/cli", type |-> "directory",
                   description |-> "shadcn-svelte CLI tool",
                   note |-> "Command-line interface for adding components"])
        @@ ("registry" :> [path |-> "packages/registry", type |-> "directory",
                           description |-> "Component registry and metadata",
                           note |-> "Registry system for component definitions"]),
     additional_info |->
        "Components are installed to your project at $lib/components/ui/"]

\* lines 365-382
BuildDirectoryTreeWithFallbackMutExceeded(owner, repo, path, branch, remote) ==
    LET r == BuildDirectoryTree(owner, repo, path, branch, remote) IN
    IF r.ok THEN r
    ELSE IF r.error.message # "" /\ StrIncludes(r.error.message, "rate limit exceeded")
    THEN TreeReturn(getBasicSvelteStructure, r.reqs)
    ELSE r

BuildDirectoryTreeWithFallback(owner, repo, path, branch, remote) ==
    LET r == BuildDirectoryTree(owner, repo, path, branch, remote) IN
    IF r.ok THEN r
    ELSE IF r.error.message # "" /\ StrIncludes(r.error.message, "rate limit")
    THEN TreeReturn(getBasicSvelteStructure, r.reqs)
    ELSE r

(***************************************************************************)
(* SpecTree: calls of the exported buildDirectoryTree                      *)
(***************************************************************************)
TreeRoots == {"packages", "packages/README.md", "docs/rate limit", Deep7, Deep8}

TreeRepos ==
    { [owner |-> REPO_OWNER, repo |-> REPO_NAME, branch |-> REPO_BRANCH],
      [owner |-> "acme", repo |-> "ui", branch |-> "dev"] }

\* the paths under root
Below(root) ==
    {p \in TreePaths : Len(p) > Len(root) /\ SubSeq(p, 1, Len(root) + 1) = root \o "/"}

\* the remotes a call on root may meet
Remotes(root) ==
    { [p \in {root} \cup Below(root) |-> IF p = root THEN a ELSE s[p]] :
        a \in RootKinds, s \in [Below(root) -> SubKinds] }

\* remote, extended by a repository that answers every other path
Total(remote) ==
    [p \in TreePaths |-> IF p \in DOMAIN remote THEN remote[p] ELSE "ok"]

Requested(reqs) == {reqs[i].path : i \in 1 .. Len(reqs)}

\* axios.buildDirectoryTree(owner, repo, path, branch), from the call to its
\* return or throw
BtCall(repo, path, remote) ==
    /\ bt.phase = "idle"
    /\ LET inner == BuildDirectoryTree(repo.owner, repo.repo, path, repo.branch,
                                       Total(remote))
           out == BuildDirectoryTreeWithFallback(repo.owner, repo.repo, path,
                                                 repo.branch, Total(remote))
       IN  bt' = [phase |-> IF out.ok THEN "returned" ELSE "threw",
                  owner |-> repo.owner, repo |-> repo.repo, path |-> path,
                  branch |-> repo.branch,
                  remote |-> [p \in Requested(out.reqs) |-> remote[p]],
                  inner |-> inner, out |-> out]
    /\ UNCHANGED <<now, cache, lastSet, lastOp, fw, registryIndex, q, hist, gh, doc, walk>>

\* the caller has the result
BtReset ==
    /\ bt.phase # "idle"
    /\ bt' = BtIdle
    /\ UNCHANGED <<now, cache, lastSet, lastOp, fw, registryIndex, q, hist, gh, doc, walk>>

NextTree ==
    \/ \E repo \in TreeRepos, path \in TreeRoots :
            \E remote \in Remotes(path) : BtCall(repo, path, remote)
    \/ BtReset

SpecTree == Init /\ [][NextTree]_vars

(***************************************************************************)
(* Claims about buildDirectoryTree                                         *)
(***************************************************************************)
\* the call in bt met no failing answer
AllFetchesSucceeded == \A p \in DOMAIN bt.remote : bt.remote[p] = "ok"

\* the entries of a listing that are files or directories
ListedNames(items) ==
    {items[k].name : k \in {i \in 1 .. Len(items) : items[i].type \in {"file", "dir"}}}

\* C15: on a path of fewer than 8 segments, with every fetch succeeding, a
\* listing gives a directory node whose children are keyed by entry name, one
\* per listed file (a file node with path, name, url, sha) or directory (the
\* tree built for that directory's path); a single file descriptor gives a
\* file node.
C15_TreeChildren ==
    (bt.phase # "idle" /\ SplitLength(bt.path) < DepthLimit /\ AllFetchesSucceeded) =>
        /\ bt.phase = "returned"
        /\ bt.out = bt.inner
        /\ LET data == GoodData(bt.path)
               tree == bt.out.value
           IN  IF data.isArray
               THEN /\ tree.path = bt.path
                    /\ tree.type = "directory"
                    /\ DOMAIN tree.children = ListedNames(data.items)
                    /\ \A k \in 1 .. Len(data.items) :
                        LET item == data.items[k] IN
                        /\ (item.type = "file") =>
                              tree.children[item.name] =
                                  [path |-> item.path, type |-> "file",
                                   name |-> item.name, url |-> item.download_url,
                                   sha |-> item.sha]
                        /\ (item.type = "dir") =>
                              tree.children[item.name] =
                                  BuildDirectoryTree(bt.owner, bt.repo, item.path,
                                                     bt.branch, Total(bt.remote)).value
               ELSE tree = [path |-> data.path, type |-> "file", name |-> data.name,
                            url |-> data.download_url, sha |-> data.sha]

\* packages: one file, two directories, cli recursed one level further
C15_Witness ==
    /\ bt.phase = "returned"
    /\ bt.path = "packages"
    /\ Len(bt.out.reqs) = 4
    /\ bt.out.value =
        [path |-> "packages", type |-> "directory",
         children |->
            ("README.md" :> [path |-> "packages/README.md", type |-> "file",
                             name |-> "README.md",
                             url |-> "https://raw.example/packages/README.md",
                             sha |-> "sha:packages/README.md"])
            @@ ("cli" :>
                 [path |-> "packages/cli", type |-> "directory",
                  children |->
                     ("src" :>
                        [path |-> "packages/cli/src", type |-> "directory",
                         children |->
                            ("index.ts" :>
                                [path |-> "packages/cli/src/index.ts", type |-> "file",
                                 name |-> "index.ts",
                                 url |-> "https://raw.example/packages/cli/src/index.ts",
                                 sha |-> "sha:packages/cli/src/index.ts"])])
                     @@ ("package.json" :>
                            [path |-> "packages/cli/package.json", type |-> "file",
                             name |-> "package.json",
                             url |-> "https://raw.example/packages/cli/package.json",
                             sha |-> "sha:packages/cli/package.json"])])
            @@ ("registry" :>
                 [path |-> "packages/registry", type |-> "directory",
                  children |->
                     ("index.json" :>
                        [path |-> "packages/registry/index.json", type |-> "file",
                         name |-> "index.json",
                         url |-> "https://raw.example/packages/registry/index.json",
                         sha |-> "sha:packages/registry/index.json"])])]

\* C16: when the root listing arrives, the call returns whatever happens to
\* its subdirectories; a subdirectory whose fetch failed is a directory node
\* with an error marker, and every other child is what it is when that fetch
\* succeeds instead.
C16_SubdirectoryFailureIsolated ==
    (bt.phase # "idle" /\ bt.remote[bt.path] = "ok" /\ GoodData(bt.path).isArray) =>
        /\ bt.phase = "returned"
        /\ \A k \in 1 .. Len(GoodData(bt.path).items) :
            LET item == GoodData(bt.path).items[k]
                tree == bt.out.value
            IN  (item.type = "dir" /\ item.path \in DOMAIN bt.remote
                    /\ bt.remote[item.path] # "ok") =>
                    /\ tree.children[item.name] =
                          [path |-> item.path, type |-> "directory",
                           error |-> "Failed to fetch contents"]
                    /\ LET healed ==
                            BuildDirectoryTree(bt.owner, bt.repo, bt.path, bt.branch,
                                [Total(bt.remote) EXCEPT ![item.path] = "ok"])
                       IN  /\ healed.ok
                           /\ DOMAIN healed.value.children = DOMAIN tree.children
                           /\ "error" \notin DOMAIN healed.value.children[item.name]
                           /\ \A n \in DOMAIN tree.children \ {item.name} :
                                 tree.children[n] = healed.value.children[n]

\* packages: cli is rate limited, README.md and registry are built
C16_Witness ==
    /\ bt.phase = "returned"
    /\ bt.path = "packages"
    /\ bt.remote = ("packages" :> "ok") @@ ("packages/cli" :> "rate-limit-payload")
                        @@ ("packages/registry" :> "ok")
    /\ bt.out.value.children["cli"] =
            [path |-> "packages/cli", type |-> "directory",
             error |-> "Failed to fetch contents"]
    /\ bt.out.value.children["README.md"].type = "file"
    /\ DOMAIN bt.out.value.children["registry"].children = {"index.json"}

\* C17: a root request that meets the rate limit, as an error payload or as
\* an HTTP 403 naming the rate limit, makes the call return the fixed
\* skeleton tree, annotated as degraded, whatever owner, repository, path and
\* branch were asked for.
C17_RateLimitSkeleton ==
    (bt.phase # "idle" /\ bt.remote[bt.path] \in RateLimitKinds) =>
        /\ bt.phase = "returned"
        /\ ~bt.inner.ok
        /\ Len(bt.out.reqs) = 1
        /\ bt.out.value.path = "packages"
        /\ bt.out.value.note = "Basic structure provided due to API limitations"
        /\ DOMAIN bt.out.value.children = {"cli", "registry"}
        /\ bt.out.value = getBasicSvelteStructure

\* another repository and a deep path, HTTP 403 form
C17_Witness ==
    /\ bt.phase = "returned"
    /\ bt.owner = "acme"
    /\ bt.branch = "dev"
    /\ bt.path = Deep7
    /\ bt.remote[bt.path] = "http-403-rate-limit"
    /\ bt.inner.error.message =
            "GitHub API rate limit exceeded: " \o PrimaryRateLimit \o ConsiderToken
    /\ bt.out.value.path = "packages"

\* C18: a root failure that is not a rate-limit condition is thrown to the
\* caller as buildDirectoryTree threw it, never replaced by the skeleton.
C18_OtherFailuresPropagate ==
    (bt.phase # "idle" /\ bt.remote[bt.path] \in OtherFailureKinds) =>
        /\ bt.phase = "threw"
        /\ ~bt.inner.ok
        /\ bt.out.error = bt.inner.error

\* C19: requests for subdirectories are issued only from listings of paths of
\* fewer than 8 segments; a listing of a path of 8 or more segments still
\* yields a directory node, with its file entries and nothing else.
C19_DepthLimit ==
    (bt.phase # "idle") =>
        /\ \A i \in 2 .. Len(bt.out.reqs) :
              SplitLength(bt.out.reqs[i].path) <= DepthLimit
        /\ (bt.remote[bt.path] = "ok" /\ SplitLength(bt.path) >= DepthLimit) =>
              /\ bt.phase = "returned"
              /\ Len(bt.out.reqs) = 1
              /\ LET items == RemoteListing(bt.path)
                     files == {items[k].name :
                                 k \in {i \in 1 .. Len(items) : items[i].type = "file"}}
                 IN  /\ DOMAIN bt.out.value.children = files
                     /\ \A n \in files :
                           /\ bt.out.value.children[n].type = "file"
                           /\ "error" \notin DOMAIN bt.out.value.children[n]
        /\ (bt.phase = "returned" /\ bt.path = Deep7 /\ Len(bt.out.reqs) = 2
                /\ bt.remote[Deep8] = "ok") =>
              bt.out.value.children["h"] =
                 [path |-> Deep8, type |-> "directory",
                  children |->
                    ("y.txt" :> [path |-> "a/b/c/d/e/f/g/h/y.txt", type |-> "file",
                                 name |-> "y.txt",
                                 url |-> "https://raw.example/a/b/c/d/e/f/g/h/y.txt",
                                 sha |-> "sha:a/b/c/d/e/f/g/h/y.txt"])]

\* the limit is met one level below the root: h is listed, i is not asked for
C19_Witness ==
    /\ bt.phase = "returned"
    /\ bt.path = Deep7
    /\ bt.remote = (Deep7 :> "ok") @@ (Deep8 :> "ok")
    /\ Requested(bt.out.reqs) = {Deep7, Deep8}
    /\ DOMAIN bt.out.value.children = {"x.txt", "h"}
    /\ DOMAIN bt.out.value.children["h"].children = {"y.txt"}

\* answers a retry policy would treat as transient
TransientKinds == {"network", "http-500"}

\* the requests of the call that went to path p
RequestsTo(reqs, p) == {i \in 1 .. Len(reqs) : reqs[i].path = p}

\* C23: every listing request of buildDirectoryTree goes through the retry
\* policy: a path that keeps failing with a transient condition is requested
\* as often as the attempt budget allows before the failure is surfaced (at
\* the root) or recorded as an error marker (on a subdirectory).
C23_TreeFetchRetried ==
    (bt.phase # "idle") =>
        \A p \in DOMAIN bt.remote :
            (bt.remote[p] \in TransientKinds) =>
                Cardinality(RequestsTo(bt.inner.reqs, p)) = DefaultRetries

(***************************************************************************)
(* buildDirectoryTree step by step, against a remote that may list         *)
(* anything: the stack holds one frame per call that has not returned, the *)
(* root first.  A frame waits for its listing, then processes its items in *)
(* order.                                                                  *)
(***************************************************************************)
MaxNesting == 10       \* calls followed on the stack

WalkRoots == {"packages", Deep7}

\* what the remote may list for a path: nothing, a file, a directory under
\* the path, or a directory entry whose path is the path itself
WalkListingKinds == {"empty", "file", "subdirectory", "self"}

WalkListing(path, kind) ==
    CASE kind = "empty" -> <<>>
      [] kind = "file" -> << Entry("file", path \o "/f.txt", "f.txt") >>
      [] kind = "subdirectory" -> << Entry("dir", path \o "/sub", "sub") >>
      [] kind = "self" -> << Entry("dir", path, "self") >>

NewFrame(path) == [path |-> path, listed |-> FALSE, items |-> <<>>, k |-> 1,
                   children |-> EmptyMap]

Top == walk.stack[Len(walk.stack)]

\* the frames below the top one, the direct caller's item settled as kind
Popped(kind) ==
    LET n == Len(walk.stack)
        caller == walk.stack[n - 1]
        item == caller.items[caller.k]
    IN  [i \in 1 .. n - 1 |->
            IF i = n - 1
            THEN [caller EXCEPT !.k = @ + 1,
                                !.children = MapPut(@, item.name, kind)]
            ELSE walk.stack[i]]

\* buildDirectoryTree(owner, repo, path, branch) is called: line 124 sends the
\* request
WalkCall(path) ==
    /\ walk.phase = "idle"
    /\ walk' = [phase |-> "running", stack |-> << NewFrame(path) >>]
    /\ UNCHANGED <<now, cache, lastSet, lastOp, fw, registryIndex, q, hist, bt, gh, doc>>

\* the request of the innermost call is answered with a listing
WalkListed(kind) ==
    /\ walk.phase = "running"
    /\ ~Top.listed
    /\ walk' = [walk EXCEPT !.stack[Len(walk.stack)] =
                    [Top EXCEPT !.listed = TRUE,
                                !.items = WalkListing(Top.path, kind)]]
    /\ UNCHANGED <<now, cache, lastSet, lastOp, fw, registryIndex, q, hist, bt, gh, doc>>

\* the request of the innermost call fails: the call throws; its caller's
\* catch records the error marker (lines 183-189), the root's caller gets
\* the error
WalkFailed ==
    /\ walk.phase = "running"
    /\ ~Top.listed
    /\ walk' = IF Len(walk.stack) = 1
               THEN [phase |-> "threw", stack |-> <<>>]
               ELSE [walk EXCEPT !.stack = Popped("error")]
    /\ UNCHANGED <<now, cache, lastSet, lastOp, fw, registryIndex, q, hist, bt, gh, doc>>

\* lines 168-192: the next item of the innermost call.  A directory is
\* entered when the path of the listing (not of the item) has fewer than 8
\* segments
WalkItem ==
    /\ walk.phase = "running"
    /\ Top.listed
    /\ Top.k <= Len(Top.items)
    /\ LET item == Top.items[Top.k] IN
       IF item.type = "dir" /\ MayDescend(Top.path)
       THEN /\ Len(walk.stack) < MaxNesting
            /\ walk' = [walk EXCEPT !.stack = Append(@, NewFrame(item.path))]
       ELSE walk' = [walk EXCEPT !.stack[Len(walk.stack)] =
                        [Top EXCEPT !.k = @ + 1,
                                    !.children = IF item.type = "file"
                                                 THEN MapPut(@, item.name, "file")
                                                 ELSE @]]
    /\ UNCHANGED <<now, cache, lastSet, lastOp, fw, registryIndex, q, hist, bt, gh, doc>>

\* line 194: the innermost call has processed its items and returns
WalkReturn ==
    /\ walk.phase = "running"
    /\ Top.listed
    /\ Top.k > Len(Top.items)
    /\ walk' = IF Len(walk.stack) = 1
               THEN [phase |-> "returned", stack |-> <<>>]
               ELSE [walk EXCEPT !.stack = Popped("directory")]
    /\ UNCHANGED <<now, cache, lastSet, lastOp, fw, registryIndex, q, hist, bt, gh, doc>>

WalkReset ==
    /\ walk.phase \in {"returned", "threw"}
    /\ walk' = WalkIdle
    /\ UNCHANGED <<now, cache, lastSet, lastOp, fw, registryIndex, q, hist, bt, gh, doc>>

NextWalk ==
    \/ \E path \in WalkRoots : WalkCall(path)
    \/ \E kind \in WalkListingKinds : WalkListed(kind)
    \/ WalkFailed
    \/ WalkItem
    \/ WalkReturn
    \/ WalkReset

SpecWalk == Init /\ [][NextWalk]_vars

\* C24: whatever the remote lists, also a directory entry whose path is the
\* listed path itself, the recursive calls of buildDirectoryTree never nest
\* deeper than the depth limit of 8.
C24_NestingBounded ==
    (walk.phase = "running") => Len(walk.stack) <= DepthLimit

(***************************************************************************)
(* Credentials.  Two clients talk to the remote: githubApi of              *)
(* utils/axios.ts (directory listings) and githubClient of the registry    *)
(* (manifest and file bodies).  Each request carries the Authorization     *)
(* header of its client, "" standing for no header.                        *)
(***************************************************************************)
MaxSent == 2        \* requests followed in one behaviour

\* String.prototype.trim, for blanks
RECURSIVE Trim(_)
Trim(s) ==
    IF Len(s) = 0 THEN s
    ELSE IF SubSeq(s, 1, 1) = " " THEN Trim(SubSeq(s, 2, Len(s)))
    ELSE IF SubSeq(s, Len(s), Len(s)) = " " THEN Trim(SubSeq(s, 1, Len(s) - 1))
    ELSE s

\* process.env: "" stands for a variable that is not set
Environments ==
    [GITHUB_API_KEY : {"", "ghp_env"}, GITHUB_PERSONAL_ACCESS_TOKEN : {"", "ghp_pat"}]

\* the value after --github-api-key, "" when the flag is absent
ArgKeys == {"", " ", "ghp_arg", " ghp_pad "}

ApiKeys == {"", "ghp_new"}

Calls == {"manifest", "file", "listing"}

\* setGitHubApiKey(apiKey), lines 688-698: the header of githubApi and the
\* credential now in force
SetKey(g, apiKey) ==
    IF apiKey # "" /\ Trim(apiKey) # ""
    THEN [g EXCEPT !.apiAuth = "Bearer " \o Trim(apiKey), !.key = Trim(apiKey)]
    ELSE [g EXCEPT !.apiAuth = "", !.key = ""]

\* the modules are evaluated: githubApi (utils/axios.ts 13-31) and the
\* registry's githubClient (registry constructor) read the environment
GhLoad(env) ==
    /\ gh.phase = "idle"
    /\ gh' = [phase |-> "loaded", env |-> env,
              apiAuth |-> IF env.GITHUB_PERSONAL_ACCESS_TOKEN # ""
                          THEN "Bearer " \o env.GITHUB_PERSONAL_ACCESS_TOKEN ELSE "",
              clientAuth |-> IF env.GITHUB_API_KEY # ""
                             THEN "token " \o env.GITHUB_API_KEY ELSE "",
              key |-> "", sent |-> <<>>]
    /\ UNCHANGED <<now, cache, lastSet, lastOp, fw, registryIndex, q, hist, bt, doc, walk>>

\* main(): parseArgs, then setGitHubApiKey when a key was found
GhMain(arg) ==
    /\ gh.phase = "loaded"
    /\ LET githubApiKey == IF arg # "" THEN arg
                           ELSE gh.env.GITHUB_PERSONAL_ACCESS_TOKEN
           g == [gh EXCEPT !.phase = "started"]
       IN  gh' = IF githubApiKey # "" THEN SetKey(g, githubApiKey) ELSE g
    /\ UNCHANGED <<now, cache, lastSet, lastOp, fw, registryIndex, q, hist, bt, doc, walk>>

\* axios.setGitHubApiKey(apiKey)
SetGitHubApiKey(apiKey) ==
    /\ gh.phase = "started"
    /\ gh' = SetKey(gh, apiKey)
    /\ UNCHANGED <<now, cache, lastSet, lastOp, fw, registryIndex, q, hist, bt, doc, walk>>

\* the header sent with a call: the registry's githubClient.get for the
\* manifest and the file bodies, githubApi.get for listings
HeaderOf(g, call) == IF call = "listing" THEN g.apiAuth ELSE g.clientAuth

\* an outbound call is made
GhSend(call) ==
    /\ gh.phase = "started"
    /\ Len(gh.sent) < MaxSent
    /\ gh' = [gh EXCEPT !.sent = Append(@, [call |-> call, auth |-> HeaderOf(gh, call),
                                            key |-> gh.key])]
    /\ UNCHANGED <<now, cache, lastSet, lastOp, fw, registryIndex, q, hist, bt, doc, walk>>

NextAuth ==
    \/ \E env \in Environments : GhLoad(env)
    \/ \E arg \in ArgKeys : GhMain(arg)
    \/ \E k \in ApiKeys : SetGitHubApiKey(k)
    \/ \E call \in Calls : GhSend(call)

SpecAuth == Init /\ [][NextAuth]_vars

\* C20: every call made while a credential k is in force carries an
\* authorization header bearing k, whichever client makes it; with no
\* credential at all the call carries no authorization header.
C20_CredentialOnEveryCall ==
    (gh.phase # "idle") =>
        \A i \in 1 .. Len(gh.sent) :
            /\ (gh.sent[i].key # "") => StrIncludes(gh.sent[i].auth, gh.sent[i].key)
            /\ (gh.sent[i].key = "" /\ gh.env.GITHUB_API_KEY = ""
                    /\ gh.env.GITHUB_PERSONAL_ACCESS_TOKEN = "") =>
                  gh.sent[i].auth = ""

(***************************************************************************)
(* Documents built from a component: getComponentSource and                *)
(* getComponentContext of the registry, their wrappers getComponentSource  *)
(* and getComponentDemo, and the tools get_component / get_component_demo. *)
(* A call awaits getComponent(name) and then builds its text.              *)
(***************************************************************************)
\* path.basename(p): the text after the last '/', trailing '/' dropped
RECURSIVE Basename(_)
Basename(p) ==
    IF Len(p) > 1 /\ SubSeq(p, Len(p), Len(p)) = "/"
    THEN Basename(SubSeq(p, 1, Len(p) - 1))
    ELSE LET slashes == {i \in 1 .. Len(p) : SubSeq(p, i, i) = "/"} IN
         IF slashes = {} \/ p = "/" THEN p
         ELSE SubSeq(p, (CHOOSE i \in slashes : \A j \in slashes : j <= i) + 1, Len(p))

LowerCase == "abcdefghijklmnopqrstuvwxyz"

UpperCase == "ABCDEFGHIJKLMNOPQRSTUVWXYZ"

\* part.charAt(0).toUpperCase() + part.slice(1)
Capitalize(part) ==
    IF part = "" THEN ""
    ELSE LET c == SubSeq(part, 1, 1)
             at == {i \in 1 .. Len(LowerCase) : SubSeq(LowerCase, i, i) = c}
         IN  (IF at = {} THEN c
              ELSE LET i == CHOOSE i \in at : TRUE IN SubSeq(UpperCase, i, i))
             \o SubSeq(part, 2, Len(part))

\* str.split('-').map(capitalize).join('')
RECURSIVE toPascalCase(_)
toPascalCase(str) ==
    LET dashes == {i \in 1 .. Len(str) : SubSeq(str, i, i) = "-"} IN
    IF dashes = {} THEN Capitalize(str)
    ELSE LET d == CHOOSE i \in dashes : \A j \in dashes : i <= j IN
         Capitalize(SubSeq(str, 1, d - 1)) \o toPascalCase(SubSeq(str, d + 1, Len(str)))

\* getInstallCommand(componentName) with the default package manager
getInstallCommand(componentName) == "npx shadcn-svelte@latest add " \o componentName

\* the values getComponent(name) resolves to: a cached or freshly completed
\* index entry with its file bodies, the static fallback, or null
GetComponentResults(name) ==
    UNION { LET look == IndexLookup(index, name) IN
            IF look.found /\ look.own
            THEN { NonNull([look.meta EXCEPT !.files =
                              [j \in 1 .. Len(look.meta.files) |->
                                  WithContent(look.meta.files[j], body[j])]]) :
                   body \in [1 .. Len(look.meta.files) -> {"", "<script>b</script>", "export {}"}] }
            ELSE IF Includes(SHADCN_SVELTE_COMPONENTS, name)
                 THEN {NonNull(FallbackData(name))}
                 ELSE {Null}
          : index \in {ParseManifest(c).index :
                          c \in {m \in ManifestContents : ParseManifest(m).parsed}} }

DocReturn(text) == [kind |-> "return", text |-> text]

DocThrow(message) == [kind |-> "throw", message |-> message]

NotFoundMessage(componentName) ==
    "Component \"" \o componentName \o "\" not found in shadcn-svelte registry"

\* forEach(dep => text += prefix + dep + '\n') from entry k on
RECURSIVE Lines(_, _, _)
Lines(prefix, list, k) ==
    IF k > Len(list) THEN ""
    ELSE prefix \o list[k] \o "\n" \o Lines(prefix, list, k + 1)

\* file.content is truthy
HasContent(file) == "content" \in DOMAIN file /\ file.content # ""

\* lines 391-398: the section of one file
FileSection(file) ==
    "// File: " \o Basename(file.path) \o "\n"
        \o (IF HasContent(file) THEN file.content ELSE "// Content not available\n")
        \o "\n\n"

\* lines 390-399: the loop over component.files from file k on
RECURSIVE FileSectionsMutReversed(_, _, _)
FileSectionsMutReversed(files, k, combinedSource) ==
    IF k > Len(files) THEN combinedSource
    ELSE FileSectionsMutReversed(files, k + 1,
                                 combinedSource \o FileSection(files[Len(files) + 1 - k]))

RECURSIVE FileSections(_, _, _)
FileSections(files, k, combinedSource) ==
    IF k > Len(files) THEN combinedSource
    ELSE FileSections(files, k + 1, combinedSource \o FileSection(files[k]))

\* ShadcnSvelteRegistry.getComponentSource after the await of getComponent
GetComponentSource(componentName, got) ==
    IF got.isNull THEN DocThrow(NotFoundMessage(componentName))
    ELSE LET component == got.value
             head == "// " \o component.name \o " component from shadcn-svelte\n"
                     \o "// Install with: npx shadcn-svelte@latest add "
                     \o componentName \o "\n\n"
             deps == IF Len(component.dependencies) > 0
                     THEN "// Dependencies:\n"
                          \o Lines("// - ", component.dependencies, 1) \o "\n"
                     ELSE ""
         IN  DocReturn(FileSections(component.files, 1, head \o deps))

\* the code fence of the context text: three backquotes in the source, a
\* character a string cannot hold here
Fence == "~~~"

\* ShadcnSvelteRegistry.getComponentContext after the await of getComponent
GetComponentContext(componentName, got) ==
    IF got.isNull THEN DocReturn(NotFoundMessage(componentName) \o ".")
    ELSE LET component == got.value
             registryDependencies ==
                 IF "registryDependencies" \in DOMAIN component
                 THEN component.registryDependencies ELSE <<>>
         IN  DocReturn(
                 "# " \o component.name \o " Component\n\n"
                 \o "Type: " \o component.type \o "\n"
                 \o (IF component.description # ""
                     THEN "Description: " \o component.description \o "\n" ELSE "")
                 \o "\n## Installation\n" \o Fence \o "bash\n"
                 \o getInstallCommand(componentName) \o "\n" \o Fence \o "\n"
                 \o (IF Len(component.files) > 0
                     THEN "\n## Files\n"
                          \o Lines("- ", [j \in 1 .. Len(component.files) |->
                                              component.files[j].path], 1)
                     ELSE "")
                 \o (IF Len(component.dependencies) > 0
                     THEN "\n## NPM Dependencies\n"
                          \o Lines("- ", component.dependencies, 1)
                     ELSE "")
                 \o (IF Len(registryDependencies) > 0
                     THEN "\n## Required Components\n"
                          \o Lines("- ", registryDependencies, 1)
                     ELSE "")
                 \o "\n## Import Pattern\n" \o Fence \o "typescript\n"
                 \o (IF Len(component.files) = 1
                     THEN "import { " \o toPascalCase(componentName)
                          \o " } from '$lib/components/ui/" \o componentName \o "'\n" \o Fence \o "\n"
                     ELSE "import * as " \o toPascalCase(componentName)
                          \o " from '$lib/components/ui/" \o componentName \o "'\n" \o Fence \o "\n"))

\* utils/axios.ts getComponentSource: any failure becomes 'not found'
AxiosGetComponentSource(componentName, got) ==
    LET r == GetComponentSource(componentName, got) IN
    IF r.kind = "throw" THEN DocThrow(NotFoundMessage(componentName)) ELSE r

\* utils/axios.ts getComponentDemo
getComponentDemo(componentName, got) ==
    LET r == GetComponentContext(componentName, got) IN
    IF r.kind = "throw" THEN DocThrow(NotFoundMessage(componentName))
    ELSE DocReturn(r.text \o "\n\nFor full examples, visit: "
                   \o "https://shadcn-svelte.com/docs/components/" \o componentName)

\* the tools: the text as content, or an McpError wrapping the message
ToolResult(prefix, r) ==
    IF r.kind = "throw" THEN DocThrow(prefix \o r.message) ELSE r

get_component(componentName, got) ==
    ToolResult("Failed to get component \"" \o componentName \o "\": ",
               AxiosGetComponentSource(componentName, got))

get_component_demo(componentName, got) ==
    ToolResult("Failed to get demo for component \"" \o componentName \o "\": ",
               getComponentDemo(componentName, got))

DocOps ==
    {"registry.getComponentSource", "getComponentSource", "get_component",
     "registry.getComponentContext", "getComponentDemo", "get_component_demo"}

DocNames == QueryNames \cup {"card", "alert-dialog"}

DocResult(op, name, got) ==
    CASE op = "registry.getComponentSource" -> GetComponentSource(name, got)
      [] op = "getComponentSource" -> AxiosGetComponentSource(name, got)
      [] op = "get_component" -> get_component(name, got)
      [] op = "registry.getComponentContext" -> GetComponentContext(name, got)
      [] op = "getComponentDemo" -> getComponentDemo(name, got)
      [] op = "get_component_demo" -> get_component_demo(name, got)

\* the operation is called and awaits getComponent(name)
DocCall(op, name) ==
    /\ doc.phase = "idle"
    /\ doc' = [phase |-> "awaiting", op |-> op, name |-> name]
    /\ UNCHANGED <<now, cache, lastSet, lastOp, fw, registryIndex, q, hist, bt, gh, walk>>

\* getComponent resolves and the operation completes
DocResolve(got) ==
    /\ doc.phase = "awaiting"
    /\ got \in GetComponentResults(doc.name)
    /\ doc' = [phase |-> "done", op |-> doc.op, name |-> doc.name, got |-> got,
               out |-> DocResult(doc.op, doc.name, got)]
    /\ UNCHANGED <<now, cache, lastSet, lastOp, fw, registryIndex, q, hist, bt, gh, walk>>

DocReset ==
    /\ doc.phase = "done"
    /\ doc' = DocIdle
    /\ UNCHANGED <<now, cache, lastSet, lastOp, fw, registryIndex, q, hist, bt, gh, walk>>

NextDoc ==
    \/ \E op \in DocOps, name \in DocNames : DocCall(op, name)
    \/ \E got \in UNION {GetComponentResults(n) : n \in DocNames} : DocResolve(got)
    \/ DocReset

SpecDoc == Init /\ [][NextDoc]_vars

\* what getComponent can return in Spec is among the results SpecDoc draws from
GetComponentResultsCover ==
    \A p \in Procs :
        (q[p].pc = "done" /\ q[p].op = "getComponent") =>
            (IF q[p].ret.kind = "null" THEN Null ELSE NonNull(q[p].ret.value))
                \in GetComponentResults(q[p].name)

\* the text from position i on
From(text, i) == SubSeq(text, i, Len(text))

StartsWith(text, prefix) ==
    Len(text) >= Len(prefix) /\ SubSeq(text, 1, Len(prefix)) = prefix

\* the body shown for a file: its content, or the placeholder
ShownBody(file) ==
    IF "content" \in DOMAIN file /\ file.content # "" THEN file.content
    ELSE "// Content not available\n"

\* text is exactly one section per file of files[k..], in that order
RECURSIVE IsSections(_, _, _)
IsSections(text, files, k) ==
    IF k > Len(files) THEN text = ""
    ELSE LET title == "// File: " \o Basename(files[k].path) \o "\n"
             body == ShownBody(files[k]) \o "\n\n"
         IN  /\ StartsWith(text, title)
             /\ StartsWith(From(text, Len(title) + 1), body)
             /\ IsSections(From(text, Len(title) + Len(body) + 1), files, k + 1)

\* C21: getComponentSource(name) fails with 'not found' exactly when
\* getComponent(name) is absent; otherwise its document begins with the
\* install command and the dependency listing, followed by exactly one
\* section per file in the order of component.files, each holding the file's
\* body or the 'content not available' placeholder.
C21_SourceDocument ==
    (doc.phase = "done" /\ doc.op \in {"registry.getComponentSource", "getComponentSource"}) =>
        IF doc.got.isNull
        THEN doc.out = DocThrow(NotFoundMessage(doc.name))
        ELSE LET c == doc.got.value
                 install == "// Install with: npx shadcn-svelte@latest add " \o doc.name \o "\n\n"
                 title == "// " \o c.name \o " component from shadcn-svelte\n"
                 deps == IF c.dependencies = <<>> THEN ""
                         ELSE "// Dependencies:\n"
                              \o Lines("// - ", c.dependencies, 1) \o "\n"
                 head == title \o install \o deps
             IN  /\ doc.out.kind = "return"
                 /\ StartsWith(doc.out.text, head)
                 /\ IsSections(From(doc.out.text, Len(head) + 1), c.files, 1)

\* a two-file component, one body fetched and the other not, is rendered
C21_Witness ==
    /\ doc.phase = "done"
    /\ doc.op = "getComponentSource"
    /\ doc.name = "button"
    /\ ~doc.got.isNull
    /\ Len(doc.got.value.files) = 2
    /\ doc.got.value.files[1].content = ""
    /\ doc.got.value.files[2].content = "export {}"
    /\ doc.got.value.dependencies = <<"bits-ui">>
    /\ doc.out.kind = "return"

\* C29: getComponentDemo(name), and the tool get_component_demo on top of it,
\* fails with a 'not found' error whenever getComponent(name) is absent, and
\* returns usage text only when getComponent(name) resolves a component.
C29_DemoNotFound ==
    (doc.phase = "done" /\ doc.op \in {"getComponentDemo", "get_component_demo"}) =>
        /\ doc.got.isNull =>
              (doc.out.kind = "throw" /\ StrIncludes(doc.out.message, "not found"))
        /\ (doc.out.kind = "return") => ~doc.got.isNull

(***************************************************************************)
(* compose_ui_pattern: the tool's schema, generateUIPattern and            *)
(* generateImports.  The fixed markup of a template is cut after its first *)
(* element; what depends on the inputs is kept.                            *)
(***************************************************************************)
\* the pattern names of the tool's z.enum
PatternNames ==
    << "login-form", "signup-form", "profile-card", "dashboard-header",
       "data-table-page", "settings-page", "card-grid", "sidebar-layout",
       "navbar-with-menu", "footer", "hero-section", "pricing-cards",
       "contact-form", "search-bar", "notification-center" >>

\* Object.keys(patterns): the generators generateUIPattern defines
PatternKeys == << "login-form", "profile-card", "data-table-page" >>

\* `const components = [...]` of each generator
PatternComponents(pattern) ==
    CASE pattern = "login-form" -> << "card", "button", "input", "label", "alert" >>
      [] pattern = "profile-card" -> << "card", "avatar", "button", "badge" >>
      [] pattern = "data-table-page" -> << "table", "button", "input", "select", "badge" >>

\* list.join(sep) from entry k on
RECURSIVE Join(_, _, _)
Join(list, sep, k) ==
    IF k > Len(list) THEN ""
    ELSE list[k] \o (IF k < Len(list) THEN sep ELSE "") \o Join(list, sep, k + 1)

\* s.split(',').map(e => e.trim()).filter(Boolean)
RECURSIVE SplitExports(_)
SplitExports(s) ==
    LET commas == {i \in 1 .. Len(s) : SubSeq(s, i, i) = ","}
        c == IF commas = {} THEN Len(s) + 1
             ELSE CHOOSE i \in commas : \A j \in commas : i <= j
        first == Trim(SubSeq(s, 1, c - 1))
        rest == IF c > Len(s) THEN <<>> ELSE SplitExports(SubSeq(s, c + 1, Len(s)))
    IN  (IF first = "" THEN <<>> ELSE <<first>>) \o rest

RECURSIVE SkipSpaces(_, _)
SkipSpaces(s, i) ==
    IF i <= Len(s) /\ SubSeq(s, i, i) \in {" ", "\n", "\t"}
    THEN SkipSpaces(s, i + 1) ELSE i

\* content.matchAll(/export\s*{\s*([^}]+)\s*}/g) from position i on: the
\* text between the braces of each match
RECURSIVE ExportMatches(_, _)
ExportMatches(s, i) ==
    IF i + 5 > Len(s) THEN <<>>
    ELSE LET b == SkipSpaces(s, i + 6)
             closes == {j \in b + 1 .. Len(s) : SubSeq(s, j, j) = "}"}
             e == IF closes = {} THEN 0
                  ELSE CHOOSE j \in closes : \A k \in closes : j <= k
         IN  IF /\ SubSeq(s, i, i + 5) = "export"
                /\ b <= Len(s) /\ SubSeq(s, b, b) = "{"
                /\ e > b + 1
             THEN << SubSeq(s, b + 1, e - 1) >> \o ExportMatches(s, e + 1)
             ELSE ExportMatches(s, i + 1)

\* path.endsWith('index.ts')
EndsWith(text, suffix) ==
    Len(text) >= Len(suffix)
        /\ SubSeq(text, Len(text) - Len(suffix) + 1, Len(text)) = suffix

\* one import line per match that names at least one export
RECURSIVE ExportImports(_, _, _)
ExportImports(component, matches, k) ==
    IF k > Len(matches) THEN <<>>
    ELSE LET exports == SplitExports(matches[k]) IN
         (IF Len(exports) > 0
          THEN << "  import { " \o Join(exports, ", ", 1)
                  \o " } from \"$lib/components/ui/" \o component \o "\";" >>
          ELSE <<>>)
         \o ExportImports(component, matches, k + 1)

\* the lines generateImports pushes for one component, given what
\* registry.getComponent(component) resolved to
ImportsOf(component, got) ==
    IF got.isNull \/ Len(got.value.files) = 0 THEN <<>>
    ELSE LET files == got.value.files
             at == {j \in 1 .. Len(files) : EndsWith(files[j].path, "index.ts")}
         IN  IF at # {} /\ HasContent(files[CHOOSE j \in at : \A k \in at : j <= k])
             THEN ExportImports(component,
                      ExportMatches(files[CHOOSE j \in at : \A k \in at : j <= k].content, 1), 1)
             ELSE << "  import { " \o toPascalCase(component)
                     \o " } from \"$lib/components/ui/" \o component \o "\";" >>

\* what the registry holds during one call: the index, and the body each
\* file request yields
IndexTsBodies == {"", "export {}", "export { Root, Root as Button }"}

RegistryViews ==
    [index : {ParseManifest(c).index :
                 c \in {m \in ManifestContents : ParseManifest(m).parsed}},
     body : IndexTsBodies]

\* registry.getComponent(name) in that view
GetComponentIn(view, name) ==
    LET look == IndexLookup(view.index, name) IN
    IF look.found /\ look.own
    THEN NonNull([look.meta EXCEPT !.files =
                     [j \in 1 .. Len(look.meta.files) |->
                         WithContent(look.meta.files[j], view.body)]])
    ELSE IF Includes(SHADCN_SVELTE_COMPONENTS, name)
         THEN NonNull(FallbackData(name))
         ELSE Null

\* generateImports(components) from component k on
RECURSIVE ImportLines(_, _, _)
ImportLines(components, view, k) ==
    IF k > Len(components) THEN <<>>
    ELSE ImportsOf(components[k], GetComponentIn(view, components[k]))
         \o ImportLines(components, view, k + 1)

generateImports(components, view) == Join(ImportLines(components, view, 1), "\n", 1)

PatternOptions == [includeState : BOOLEAN, responsive : BOOLEAN]

\* the text a generator returns
PatternTemplate(pattern, imports, options) ==
    "<script lang=\"ts\">\n" \o imports \o "\n"
    \o (CASE pattern = "login-form" ->
                (IF options.includeState THEN "\n  let email = $state('');" ELSE "")
                \o "\n</script>\n\n<Card class=\""
                \o (IF options.responsive THEN "w-full max-w-md mx-auto" ELSE "w-96")
                \o "\">"
          [] pattern = "profile-card" ->
                "  \n  export let name: string;\n</script>\n\n<Card class=\""
                \o (IF options.responsive THEN "w-full max-w-sm" ELSE "w-80")
                \o "\">"
          [] pattern = "data-table-page" ->
                (IF options.includeState THEN "\n  type DataItem = {" ELSE "")
                \o "\n</script>\n\n<div class=\"space-y-4\">\n  <div class=\"flex "
                \o (IF options.responsive THEN "flex-col sm:flex-row" ELSE "flex-row")
                \o " gap-4\">")

UnknownPattern(pattern) ==
    "Unknown UI pattern: " \o pattern \o ". Available patterns: "
        \o Join(PatternKeys, ", ", 1)

\* patterns[pattern] is a generator
HasGenerator(pattern) == Includes(PatternKeys, pattern)

\* the tool compose_ui_pattern is called: generateUIPattern looks the
\* generator up, and either fails or awaits generateImports
PatCall(pattern, options) ==
    /\ doc.phase = "idle"
    /\ doc' = IF HasGenerator(pattern)
              THEN [phase |-> "awaiting", op |-> "compose_ui_pattern",
                    pattern |-> pattern, options |-> options]
              ELSE [phase |-> "done", op |-> "compose_ui_pattern",
                    pattern |-> pattern, options |-> options,
                    out |-> ToolResult("Failed to generate UI pattern \"" \o pattern \o "\": ",
                                       DocThrow(UnknownPattern(pattern)))]
    /\ UNCHANGED <<now, cache, lastSet, lastOp, fw, registryIndex, q, hist, bt, gh, walk>>

\* generateImports has resolved and the generator returns its text
PatResolve(view) ==
    /\ doc.phase = "awaiting"
    /\ doc' = [phase |-> "done", op |-> doc.op, pattern |-> doc.pattern,
               options |-> doc.options, view |-> view,
               out |-> DocReturn(PatternTemplate(doc.pattern,
                          generateImports(PatternComponents(doc.pattern), view),
                          doc.options))]
    /\ UNCHANGED <<now, cache, lastSet, lastOp, fw, registryIndex, q, hist, bt, gh, walk>>

NextPattern ==
    \/ \E i \in 1 .. Len(PatternNames), o \in PatternOptions : PatCall(PatternNames[i], o)
    \/ \E view \in RegistryViews : PatResolve(view)
    \/ DocReset

SpecPattern == Init /\ [][NextPattern]_vars

\* C22: for every pattern name the tool's schema accepts, generateUIPattern
\* returns generated code and does not fail with 'Unknown UI pattern'.
C22_AdvertisedPatternsGenerated ==
    (doc.phase = "done" /\ doc.op = "compose_ui_pattern"
        /\ Includes(PatternNames, doc.pattern)) =>
        /\ doc.out.kind = "return"
        /\ StartsWith(doc.out.text, "<script")

(***************************************************************************)
(* Concurrent queries: two callers may each have a query in flight; a      *)
(* query runs from one await to the next while the other waits.            *)
(***************************************************************************)
ConcNames == {"zeta"}

ConcManifestAnswers ==
    {Response("e2l0ZW1zOltidXR0b24sYmxvY2ssemV0YSxub25hbWVdfQ=="),
     Rejection(NotFoundError), Rejection(NetworkError)}

\* the instants the backoff timers of one fetch fire at
ConcInstants == {1000, 3000}

NextConc ==
    \/ \E p \in Procs : StartGetAvailableComponents(p)
    \/ \E p \in Procs, n \in ConcNames : StartGetComponent(p, n)
    \/ \E p \in Procs, a \in ConcManifestAnswers : ManifestAnswer(p, a)
    \/ \E p \in Procs : ManifestWake(p)
    \/ \E p \in Procs, j \in 1 .. MaxFiles, a \in AllFileAnswers : FileAnswer(p, j, a)
    \/ \E p \in Procs, j \in 1 .. MaxFiles : FileWake(p, j)
    \/ \E p \in Procs : Finish(p)
    \/ \E t \in ConcInstants : RTick(t)

SpecConc == Init /\ [][NextConc]_vars

\* C25: the index is built once per cache window even under concurrency: of
\* the queries in flight at the same time, at most one has a manifest
\* request outstanding.
C25_OneManifestFetch ==
    Cardinality({p \in Procs : q[p].pc = "index"}) <= 1

(***************************************************************************)
(* The tool list_components on top of the registry.  The handler awaits    *)
(* getAvailableComponents and sorts the array it receives: the array the   *)
(* registry returned is the one the cache entry holds (get returns         *)
(* entry.data, set stores the reference), so the sort reorders the entry.  *)
(***************************************************************************)
\* the characters of component names, in UTF-16 code unit order
CodeUnits == "-0123456789abcdefghijklmnopqrstuvwxyz"

CodeUnit(c) == CHOOSE i \in 1 .. Len(CodeUnits) : SubSeq(CodeUnits, i, i) = c

\* a sorts before b in Array.prototype.sort's default order
RECURSIVE StrLess(_, _)
StrLess(a, b) ==
    IF b = "" THEN FALSE
    ELSE IF a = "" THEN TRUE
    ELSE LET x == CodeUnit(SubSeq(a, 1, 1))
             y == CodeUnit(SubSeq(b, 1, 1))
         IN  IF x # y THEN x < y
             ELSE StrLess(SubSeq(a, 2, Len(a)), SubSeq(b, 2, Len(b)))

\* list, sorted, with v put in its place (stable)
RECURSIVE Insert(_, _)
Insert(list, v) ==
    IF list = <<>> THEN <<v>>
    ELSE IF StrLess(v, list[Len(list)])
         THEN Append(Insert(SubSeq(list, 1, Len(list) - 1), v), list[Len(list)])
         ELSE Append(list, v)

\* components.sort()
RECURSIVE ArraySort(_)
ArraySort(list) ==
    IF list = <<>> THEN <<>>
    ELSE Insert(ArraySort(SubSeq(list, 1, Len(list) - 1)), list[Len(list)])

\* the handler of list_components is entered: axios.getAvailableComponents()
ListComponentsStart(p) == StartGetAvailableComponents(p)

\* the await of the handler resumes: components.sort() reorders the array
\* in place, and with it the data of the cache entry that holds it; the
\* static list is in sorted order already and keeps its order
ListComponentsFinish(p) ==
    /\ q[p].pc = "done"
    /\ q[p].op = "getAvailableComponents"
    /\ cache' = IF "components-list" \in DOMAIN cache
                   /\ cache["components-list"].data = q[p].ret.value
                THEN [cache EXCEPT !["components-list"].data = ArraySort(@)]
                ELSE cache
    /\ q' = [q EXCEPT ![p] = IdleQuery]
    /\ hist' = [hist EXCEPT !.populate =
                    IF q[p].miss
                    THEN NonNull(IF q[p].fetch.phase = "none" THEN 0 ELSE 1)
                    ELSE @]
    /\ UNCHANGED <<now, lastSet, registryIndex, lastOp, fw, auxVars>>

ToolNames == {"zeta"}

NextTools ==
    \/ \E p \in Sequential : Quiet /\ ListComponentsStart(p)
    \/ \E p \in Sequential : ListComponentsFinish(p)
    \/ \E p \in Sequential, n \in ToolNames : Quiet /\ StartGetComponent(p, n)
    \/ \E p \in Sequential, a \in ManifestAnswers : ManifestAnswer(p, a)
    \/ \E p \in Sequential : ManifestWake(p)
    \/ \E p \in Sequential, j \in 1 .. MaxFiles, a \in AllFileAnswers : FileAnswer(p, j, a)
    \/ \E p \in Sequential, j \in 1 .. MaxFiles : FileWake(p, j)
    \/ \E p \in Sequential : q[p].op = "getComponent" /\ Finish(p)
    \/ \E t \in ClockInstants : RTick(t)

SpecTools == Init /\ [][NextTools]_vars

\* C26: a value held in the cache is never changed by an operation of the
\* resolvers or of the tools: as long as an entry is in the cache it has the
\* content and order it was stored with, so a later get within TTL yields
\* what was stored; the static fallback list keeps its order too.
C26_CachedValuesImmutable ==
    /\ \A k \in DOMAIN cache : k \in DOMAIN lastSet /\ cache[k] = lastSet[k]
    /\ ArraySort(SHADCN_SVELTE_COMPONENTS) = SHADCN_SVELTE_COMPONENTS

(***************************************************************************)
(* Two callers and a manifest that changes between their requests: every   *)
(* request is answered at once with a manifest, so no timer is involved.   *)
(***************************************************************************)
MaxRaceQueries == 3    \* queries started in one behaviour of SpecRace

RaceManifestAnswers ==
    {Response("e2l0ZW1zOltidXR0b24sYmxvY2ssemV0YSxub25hbWVdfQ=="),
     Response("e2l0ZW1zOltibG9ja119")}

RaceFileAnswers == {Response("PHNjcmlwdD5iPC9zY3JpcHQ+"), Rejection(NotFoundError)}

InitRace ==
    /\ now = 0
    /\ cache = EmptyMap
    /\ lastSet = EmptyMap
    /\ registryIndex = Null
    /\ q = [p \in Procs |-> IdleQuery]
    /\ hist = NewHist(MaxRaceQueries)
    /\ bt = BtIdle
    /\ gh = GhIdle
    /\ doc = DocIdle
    /\ walk = WalkIdle
    /\ lastOp = NoOp
    /\ fw = FwIdle

NextRace ==
    \/ \E p \in Procs : StartGetAvailableComponents(p)
    \/ \E p \in Procs, n \in ConcNames : StartGetComponent(p, n)
    \/ \E p \in Procs, a \in RaceManifestAnswers : ManifestAnswer(p, a)
    \/ \E p \in Procs, j \in 1 .. MaxFiles, a \in RaceFileAnswers : FileAnswer(p, j, a)
    \/ \E p \in Procs : Finish(p)

SpecRace == InitRace /\ [][NextRace]_vars

(***************************************************************************)
(* More claims about the cache                                             *)
(***************************************************************************)
\* C28: get has no effect other than lazy eviction: on an expired entry it
\* removes exactly that entry; on a live or absent key it changes nothing,
\* and in particular leaves the stored time alone, so every entry keeps the
\* time of its last set however often it is read.
C28_GetFrame ==
    /\ (lastOp.op = "get") =>
          LET before == lastOp.before
              k == lastOp.key
          IN  IF k \in DOMAIN before /\ now - before[k].timestamp > TTL
              THEN /\ DOMAIN cache = DOMAIN before \ {k}
                   /\ \A x \in DOMAIN cache : cache[x] = before[x]
                   /\ ~lastOp.ret.hit
              ELSE cache = before
    /\ \A x \in DOMAIN cache :
          x \in DOMAIN lastSet /\ cache[x].timestamp = lastSet[x].timestamp

\* a get evicts an expired entry while another expired entry stays
C28_Witness ==
    /\ lastOp.op = "get"
    /\ lastOp.key \in DOMAIN lastOp.before
    /\ lastOp.key \notin DOMAIN cache
    /\ \E x \in DOMAIN cache : now - cache[x].timestamp > TTL
    /\ \E y \in DOMAIN cache : now - cache[y].timestamp <= TTL /\ cache[y].timestamp < now

(***************************************************************************)
(* More claims about the registry                                          *)
(***************************************************************************)
\* the names of the manifest's items that are UI-component entries
UiNames(items) ==
    {items[k].name : k \in {i \in 1 .. Len(items) :
                              items[i].type = "registry:ui" /\ items[i].name # ""}}

\* C27: when a manifest response is parsed, the index built from it (kept as
\* this.registryIndex) has as keys exactly the names of the items tagged
\* 'registry:ui' that have a non-empty name, each once, and every entry is
\* of that type.
C27_IndexKeySet ==
    [][\A p \in Procs, a \in ManifestAnswers :
          (ManifestAnswer(p, a) /\ a.ok /\ ParseManifest(a.content).parsed) =>
              LET items == JsonParse(Base64Decode(a.content)).items
                  index == registryIndex'.value
              IN  /\ ~registryIndex'.isNull
                  /\ {index.keys[k] : k \in 1 .. Len(index.keys)} = UiNames(items)
                  /\ DOMAIN index.meta = UiNames(items)
                  /\ Len(index.keys) = Cardinality(UiNames(items))
                  /\ \A n \in DOMAIN index.meta :
                        index.meta[n].type = "registry:ui" /\ index.meta[n].name = n
                  /\ q'[p].index = index]_vars

\* a manifest listing zeta twice and a block has been indexed: zeta once
C27_Witness ==
    \E p \in Procs :
        /\ q[p].pc # "idle"
        /\ q[p].how = "fetched"
        /\ q[p].fetch.reqs >= 1
        /\ q[p].index.keys = <<"zeta", "button">>
        /\ q[p].index.meta["zeta"].dependencies = <<"clsx">>
        /\ registryIndex = NonNull(q[p].index)

\* C30: after clearCache() nothing obtained before the clear is reused: a
\* query that resolves the index while no index has been stored since the
\* last clear issues a manifest request.
C30_ClearForcesRefetch ==
    \A p \in Procs :
        (IndexCalled(q[p]) /\ q[p].op \in {"getAvailableComponents", "getComponent"}
            /\ q[p].seen.isNull) =>
            /\ q[p].how # "memo"
            /\ q[p].fetch.reqs >= 1

\* C31: getAvailableComponents always ends by returning a list, and the
\* list is never empty, whatever the remote answered (rejections of every
\* class, no content, malformed or zero-entry manifests) and whatever the
\* cache held.
C31_ListNeverEmpty ==
    \A p \in Procs :
        (q[p].pc = "done" /\ q[p].op = "getAvailableComponents") =>
            /\ q[p].ret.kind = "list"
            /\ Len(q[p].ret.value) > 0
            /\ \A i \in 1 .. Len(q[p].ret.value) : q[p].ret.value[i] # ""

\* the manifest request was rate limited after a clear: the static list
C31_Witness ==
    \E p \in Procs :
        /\ q[p].pc = "done"
        /\ q[p].op = "getAvailableComponents"
        /\ q[p].miss
        /\ q[p].how = "rate-limit"
        /\ q[p].ret.value = SHADCN_SVELTE_COMPONENTS
        /\ hist.queries = 2

\* the names of a list
Names(list) == {list[i] : i \in 1 .. Len(list)}

\* the names the resolver can serve from what it holds: the keys of
\* this.registryIndex and the static list
Resolvable ==
    Names(SHADCN_SVELTE_COMPONENTS)
        \cup (IF registryIndex.isNull THEN {} ELSE Names(registryIndex.value.keys))

\* with one caller: every name of a returned list is a key of the index the
\* registry holds or a static name, and getComponent of such a name returns
\* a component
ListedNamesResolveInTurn ==
    \A p \in Procs :
        /\ (q[p].pc = "done" /\ q[p].op = "getAvailableComponents") =>
               Names(q[p].ret.value) \subseteq Resolvable
        /\ (q[p].pc = "done" /\ q[p].op = "getComponent"
                /\ q[p].name \in Resolvable) =>
               (q[p].ret.kind = "component" /\ q[p].ret.value.name = q[p].name)

\* C32: the listing and the resolver agree: a getComponent(name) called
\* after getAvailableComponents returned (and stored) a list containing name
\* returns a component, never null.
C32_ListedNamesResolve ==
    \A p \in Procs :
        (q[p].pc = "done" /\ q[p].op = "getComponent"
            /\ ~q[p].listed.isNull
            /\ q[p].name \in Names(q[p].listed.value.data)) =>
            (q[p].ret.kind = "component" /\ q[p].ret.value.name = q[p].name)

\* C33: a degraded getComponent result is pinned for a cache window: a
\* getComponent(name) called within TTL of the time a degraded result for name
\* was stored, with no clearCache in between, returns that result from the
\* cache and sends no request.
C33_DegradedPinned ==
    \A p \in Procs :
        (/\ q[p].pc = "done" /\ q[p].op = "getComponent"
         /\ ~q[p].pinned.isNull
         /\ q[p].pinned.value.name = q[p].name
         /\ q[p].t0 - q[p].pinned.value.timestamp <= TTL) =>
            /\ q[p].ret = [kind |-> "component", value |-> q[p].pinned.value.data]
            /\ ~q[p].miss
            /\ q[p].how = "none"
            /\ q[p].fetch.reqs = 0
            /\ q[p].tasks = <<>>

(***************************************************************************)
(* More claims about buildDirectoryTree                                    *)
(***************************************************************************)
\* the node of tree built for path, a path at or below tree.path
RECURSIVE NodeAt(_, _)
NodeAt(tree, path) ==
    IF tree.path = path THEN tree
    ELSE LET n == CHOOSE n \in DOMAIN tree.children :
                    LET c == tree.children[n].path IN
                    \/ c = path
                    \/ (Len(path) > Len(c) /\ SubSeq(path, 1, Len(c) + 1) = c \o "/")
         IN  NodeAt(tree.children[n], path)

\* the subdirectories the call requested and found rate limited
RateLimitedBelow ==
    {p \in DOMAIN bt.remote : p # bt.path /\ bt.remote[p] \in RateLimitKinds}

\* the tree returned is the one built from the remote's listings
RealTree ==
    /\ bt.phase = "returned"
    /\ bt.out = bt.inner
    /\ bt.out.value.path = bt.path
    /\ "note" \notin DOMAIN bt.out.value

\* a rate limit met below the root, at any level, leaves an error marker on
\* that child of the real tree
SubdirectoryRateLimitMarked ==
    (bt.phase # "idle" /\ bt.remote[bt.path] = "ok" /\ RateLimitedBelow # {}) =>
        /\ RealTree
        /\ \A p \in RateLimitedBelow :
              NodeAt(bt.out.value, p) =
                  [path |-> p, type |-> "directory", error |-> "Failed to fetch contents"]

\* the skeleton is returned only for a rate-limited root request
SkeletonOnlyOnRootRateLimit ==
    (bt.phase = "returned" /\ bt.out.value = getBasicSvelteStructure) =>
        bt.remote[bt.path] \in RateLimitKinds

\* two levels below the root: packages/cli/src is rate limited, and the tree
\* of packages holds cli with its package.json and the marker on src
SubdirectoryRateLimitMarkedCase ==
    /\ bt.phase = "returned"
    /\ bt.path = "packages"
    /\ bt.remote["packages/cli"] = "ok"
    /\ bt.remote["packages/cli/src"] = "rate-limit-payload"
    /\ "error" \in DOMAIN bt.out.value.children["cli"].children["src"]
    /\ bt.out.value.children["cli"].children["package.json"].type = "file"

\* C34: a rate limit met while fetching a subdirectory, at any level below
\* the root request, is recorded as an error marker on that child and the
\* call returns the real tree; the skeleton tree is returned only when the
\* root request itself fails with a rate-limit condition.
C34_SkeletonOnlyForRoot ==
    /\ SubdirectoryRateLimitMarked
    /\ SkeletonOnlyOnRootRateLimit

\* the directories whose listing the call received
ListedPaths ==
    {p \in DOMAIN bt.remote : bt.remote[p] = "ok" /\ GoodData(p).isArray}

\* C35: in a tree returned by buildDirectoryTree, an entry of a listing is
\* missing from the children of its directory's node exactly when it is a
\* subdirectory listed under a path of 8 or more segments, or its type is
\* neither file nor dir; every other listed entry has a children entry.
C35_MissingEntries ==
    (bt.phase = "returned" /\ bt.inner.ok) =>
        \A p \in ListedPaths :
            LET node == NodeAt(bt.out.value, p)
                items == RemoteListing(p)
            IN  /\ node.type = "directory"
                /\ \A k \in 1 .. Len(items) :
                      (items[k].name \notin DOMAIN node.children) <=>
                          \/ (items[k].type = "dir" /\ SplitLength(p) >= DepthLimit)
                          \/ items[k].type \notin {"file", "dir"}
                /\ \A n \in DOMAIN node.children :
                      \E k \in 1 .. Len(items) : items[k].name = n

\* from a root of 7 segments: h (8 segments) is fetched and lists i and
\* y.txt; y.txt has an entry, i has none; x.txt and h have entries
C35_Witness ==
    /\ bt.phase = "returned"
    /\ bt.path = Deep7
    /\ bt.remote[Deep8] = "ok"
    /\ RemoteListing(Deep8)[1].name = "i"
    /\ DOMAIN NodeAt(bt.out.value, Deep8).children = {"y.txt"}
    /\ DOMAIN bt.out.value.children = {"x.txt", "h"}
    /\ Deep9 \notin Requested(bt.out.reqs)

====
